---- MODULE Spec2Model ----
(***************************************************************************)
(* Model of the cred360 CMA analysis service (python).                     *)
(*                                                                         *)
(* The module holds nine state machines over disjoint groups of           *)
(* variables:                                                              *)
(*   SpecScope  the orchestrator's resource scope: CMAAnalyzer.__aenter__, *)
(*              the body of `async with`, CMAAnalyzer.__aexit__            *)
(*   Spec       one analysis run: the five workflow nodes of               *)
(*              CMAAnalyzer.run_analysis and the reply of POST /analysis   *)
(*   SpecTok    CMAAnalyzer._extract_token_usage on bounded responses      *)
(*   SpecApi    POST /analysis: validation, upload and run directories of  *)
(*              concurrent requests                                        *)
(*   SpecAlert  AlertTool.classify_financial_attributes                    *)
(*   SpecGet    GET /alerts and GET /reports on the latest run of an       *)
(*              account: find_latest_run_dir, parse_and_filter_alerts      *)
(*   SpecRec    GET /recommendations and the target date of the alert      *)
(*              extractor, on calendar dates                               *)
(*   SpecAgent  the tool-using loop of the per-sheet analysis agent        *)
(*   SpecDerive the alert derivation of FinancialDataExtractor.run         *)
(* A group that a specification does not drive stays at its idle value.    *)
(***************************************************************************)
EXTENDS Integers, Sequences, FiniteSets, TLC

VARIABLES
    \* ---- resource scope (CMAAnalyzer.__aenter__ / __aexit__) ----
    scope_pc,        \* position of the task in run_cma_analysis_task
    db_conn,         \* self.db_conn is set (not None)
    mcp_session,     \* self.mcp_session is set
    mcp_client,      \* self.mcp_client is set
    rw_set,          \* self.read / self.write are set
    opened,          \* ghost: resources whose open call succeeded
    setup_closed,    \* ghost: _setup_database closed its own connection
    exit_handles,    \* ghost: the handles that were set when __aexit__ began
    teardown_log,    \* ghost: the close calls __aexit__ made, in order, each
                     \* with whether it raised (and was logged)
    exit_via,        \* who called __aexit__: "enter" (failed entry) or "with"
    body_raised,     \* the body of `async with` raised
    task_outcome,    \* what run_cma_analysis_task handed to its caller
    \* ---- one analysis run (CMAAnalyzer.run_analysis, POST /analysis) ----
    workbook,        \* input: the workbook's sheet names, in workbook order
    configured_sheets, \* input: config["sheets_to_analyze"] (lower-cased names)
    templates,       \* input: sheet names with an entry in the data format file
    wf_status,       \* compiled_workflow.ainvoke: "running", "returned", "raised"
    wf_next,         \* nodes the executor has scheduled for the current step
    wf_active,       \* nodes that have started and not yet finished
    wf_done,         \* nodes of the current step that have finished
    wf_step,         \* number of executor steps started so far
    node_log,        \* ghost: start and end events of the nodes, in order
    node_pc,         \* per node: position inside the node function
    loop_i,          \* per node: index of the next item of its for loop
    extracted_sheets_data, \* local of extract_excel
    sheets_data,     \* state["sheets_data"]: base name -> sheets aggregated
    sheets_to_analyze, \* state["sheets_to_analyze"]
    graph_inputs,    \* state["graph_inputs"]: base name -> markdown file
    insights,        \* state["insights"]: base name -> report or placeholder
    final_report,    \* state["final_report"]
    error_logs,      \* state["error_logs"], the list every node appends to
    graph_data,      \* local `data` of graph_data_agent
    generated_code,  \* local `generated_code` of graph_data_agent
    knowledge_df,    \* local `knowledge_df` of analyze_sheets
    audit_data_files, \* audit_data/<sheet>.md files written, with their source
    audit_rows,      \* rows of audit_llm_calls written by this run
    llm_calls,       \* ghost: the model invocations made, in order
    failures,        \* ghost: the node-local failures that occurred
    faults,          \* number of environment anomalies so far
    response,        \* reply of POST /analysis
    \* ---- token usage extraction (CMAAnalyzer._extract_token_usage) ----
    tok_pc,          \* "call" before the call, "done" after it
    tok_model_name,  \* self.model_name
    tok_response,    \* the response handed to the function
    tok_result,      \* the tokens dict returned
    tok_raised,      \* the call raised instead of returning
    \* ---- POST /analysis (trigger_analysis) ----
    api_clock,       \* the wall clock, in whole seconds
    api_req,         \* per request: position, inputs, reply, ghost effects
    mcp_script_present, \* the tool server script is at its configured path
    upload_dirs,     \* account directories below the upload directory
    upload_files,    \* files below the upload directory, with their content
    run_dirs,        \* run directories made, each with the run that made it
    run_outputs,     \* ghost: run directories written into, with the writer
    \* ---- alert classification (AlertTool) ----
    alert_pc,        \* "call" before the call, "done" after it
    alert_column,    \* the column name of the frame
    alert_value,     \* the value of the column's first row
    alert_messages,  \* the "Alert Message" column of the result
    alert_raised,    \* the call raised instead of returning
    \* ---- reading a run back (GET /alerts, GET /reports) ----
    get_pc,          \* "call" before the handler runs, "done" after it
    get_route,       \* "alerts" or "reports"
    get_account_name, \* the path parameter
    out_account_dir, \* the account's directory exists below the output dir
    out_entries,     \* the entries of the account's directory
    out_files_dir,   \* the run directory that holds the files below
    out_alert_file,  \* customer_alerts/alert_messages.md: its lines
    out_report_files, \* reports/*.md: the file stems
    out_cumulative,  \* Cumulative_Report.md exists
    get_latest,      \* ghost: what find_latest_run_dir returned
    get_response,    \* the reply
    \* -- recommendations and target date --
    rec_pc,          \* "idle", "call", "done"
    rec_today,       \* date.today() / datetime.now()
    rec_account_name, \* the path parameter
    db_company,      \* customer_master holds the company
    db_loan,         \* loan_data holds a row of the company
    db_row,          \* the date cells of that row
    rec_response,    \* the reply
    target_date,     \* FinancialDataExtractor.target_date
    \* -- the analysis agent's loop --
    agent_pc,        \* "idle", "model", "tools", "answered", "raised",
                     \* "limit_error"
    agent_inherits,  \* the runtime hands the workflow's configuration down
    agent_steps,     \* steps of the loop taken
    agent_tool_calls, \* ghost: turns of the tools
    agent_tool_errors, \* ghost: turns of the tools that returned an error
    \* -- the alert derivation --
    der_pc,          \* "idle", "call", "done"
    extracted_data,  \* the extraction record: the state of each field
    alert_data,      \* the frame create_alerts_data returned
    alert_file       \* alert_messages.md: its rows, {} while not written

scopeVars == <<scope_pc, db_conn, mcp_session, mcp_client, rw_set, opened,
               setup_closed, exit_handles, teardown_log, exit_via,
               body_raised, task_outcome>>

runVars == <<workbook, configured_sheets, templates, wf_status, wf_next,
             wf_active, wf_done, wf_step, node_log, node_pc, loop_i,
             extracted_sheets_data, sheets_data, sheets_to_analyze,
             graph_inputs, insights, final_report, error_logs, graph_data,
             generated_code, knowledge_df, audit_data_files, audit_rows,
             llm_calls, failures, faults, response>>

tokVars == <<tok_pc, tok_model_name, tok_response, tok_result, tok_raised>>

apiVars == <<api_clock, api_req, mcp_script_present, upload_dirs, upload_files,
             run_dirs, run_outputs>>

alertVars == <<alert_pc, alert_column, alert_value, alert_messages,
               alert_raised>>

getVars == <<get_pc, get_route, get_account_name, out_account_dir, out_entries,
             out_files_dir, out_alert_file, out_report_files, out_cumulative,
             get_latest, get_response>>

recVars == <<rec_pc, rec_today, rec_account_name, db_company, db_loan, db_row,
             rec_response, target_date>>

agentVars == <<agent_pc, agent_inherits, agent_steps, agent_tool_calls,
               agent_tool_errors>>

deriveVars == <<der_pc, extracted_data, alert_data, alert_file>>

vars == <<scopeVars, runVars, tokVars, apiVars, alertVars, getVars, recVars,
          agentVars, deriveVars>>

\* For each group, the groups it leaves alone.
nonScopeVars == <<runVars, tokVars, apiVars, alertVars, getVars, recVars,
    agentVars, deriveVars>>
nonRunVars == <<scopeVars, tokVars, apiVars, alertVars, getVars, recVars,
    agentVars, deriveVars>>
nonTokVars == <<scopeVars, runVars, apiVars, alertVars, getVars, recVars,
    agentVars, deriveVars>>
nonApiVars == <<scopeVars, runVars, tokVars, alertVars, getVars, recVars,
    agentVars, deriveVars>>
nonAlertVars == <<scopeVars, runVars, tokVars, apiVars, getVars, recVars,
    agentVars, deriveVars>>
nonGetVars == <<scopeVars, runVars, tokVars, apiVars, alertVars, recVars,
    agentVars, deriveVars>>
nonRecVars == <<scopeVars, runVars, tokVars, apiVars, alertVars, getVars,
    agentVars, deriveVars>>
nonAgentVars == <<scopeVars, runVars, tokVars, apiVars, alertVars, getVars,
    recVars, deriveVars>>
nonDeriveVars == <<scopeVars, runVars, tokVars, apiVars, alertVars, getVars,
    recVars, agentVars>>

-----------------------------------------------------------------------------
(* Resource scope                                                          *)

Resources == {"db", "session", "client"}

ScopeIdle ==
    /\ scope_pc = "idle"
    /\ db_conn = FALSE
    /\ mcp_session = FALSE
    /\ mcp_client = FALSE
    /\ rw_set = FALSE
    /\ opened = {}
    /\ setup_closed = FALSE
    /\ exit_handles = {}
    /\ teardown_log = <<>>
    /\ exit_via = "none"
    /\ body_raised = FALSE
    /\ task_outcome = "pending"

\* State after CMAAnalyzer.__init__: every handle is None.
ScopeInit ==
    /\ scope_pc = "construct"
    /\ db_conn = FALSE
    /\ mcp_session = FALSE
    /\ mcp_client = FALSE
    /\ rw_set = FALSE
    /\ opened = {}
    /\ setup_closed = FALSE
    /\ exit_handles = {}
    /\ teardown_log = <<>>
    /\ exit_via = "none"
    /\ body_raised = FALSE
    /\ task_outcome = "pending"

HandlesSet(db, session, client) ==
    (IF db THEN {"db"} ELSE {}) \cup (IF session THEN {"session"} ELSE {})
        \cup (IF client THEN {"client"} ELSE {})

\* Where a failed __aenter__ step goes: the except clause awaits __aexit__
\* and re-raises afterwards.
AEnterFailNoCleanup == "raise_entry"
AEnterFailTarget == "exit_db"

\* CMAAnalyzer.__init__ inside run_cma_analysis_task: an unsupported model
\* name or missing credentials raise ValueError before any handle is set.
Construct ==
    /\ scope_pc = "construct"
    /\ UNCHANGED nonScopeVars
    /\ \E ok \in BOOLEAN :
          IF ok
          THEN /\ scope_pc' = "enter_db"
               /\ task_outcome' = task_outcome
          ELSE /\ scope_pc' = "finished"
               /\ task_outcome' = "raised_ctor"
    /\ UNCHANGED <<db_conn, mcp_session, mcp_client, rw_set, opened,
                   setup_closed, exit_handles, teardown_log, exit_via,
                   body_raised>>

\* __aenter__ step 1: _setup_database.  "ok": connected and table checked.
\* "noconn": aiosqlite.connect raised, db_conn still None.  "late": a
\* statement after connect raised and the handler closed the connection.
\* "late_closefail": the handler's own close raised, so db_conn stays set
\* and the new exception propagates.
SetupDatabase ==
    /\ scope_pc = "enter_db"
    /\ UNCHANGED nonScopeVars
    /\ \E r \in {"ok", "noconn", "late", "late_closefail"} :
          /\ db_conn' = (r \in {"ok", "late_closefail"})
          /\ opened' = IF r = "noconn" THEN opened ELSE opened \cup {"db"}
          /\ setup_closed' = (r = "late")
          /\ scope_pc' = IF r = "ok" THEN "enter_client" ELSE AEnterFailTarget
          /\ exit_via' = IF r = "ok" THEN exit_via ELSE "enter"
          /\ exit_handles' = IF r = "ok" THEN exit_handles
                             ELSE HandlesSet(db_conn', mcp_session, mcp_client)
    /\ UNCHANGED <<mcp_session, mcp_client, rw_set, teardown_log, body_raised,
                   task_outcome>>

\* __aenter__ step 2: self.mcp_client = stdio_client(...); its __aenter__
\* spawns the tool server and yields the read/write streams.
ClientEnter ==
    /\ scope_pc = "enter_client"
    /\ UNCHANGED nonScopeVars
    /\ mcp_client' = TRUE
    /\ \E ok \in BOOLEAN :
          /\ rw_set' = ok
          /\ opened' = IF ok THEN opened \cup {"client"} ELSE opened
          /\ scope_pc' = IF ok THEN "enter_session" ELSE AEnterFailTarget
          /\ exit_via' = IF ok THEN exit_via ELSE "enter"
          /\ exit_handles' = IF ok THEN exit_handles
                             ELSE HandlesSet(db_conn, mcp_session, TRUE)
    /\ UNCHANGED <<db_conn, mcp_session, setup_closed, teardown_log,
                   body_raised, task_outcome>>

\* __aenter__ step 3: self.mcp_session = ClientSession(read, write) and its
\* __aenter__.
SessionEnter ==
    /\ scope_pc = "enter_session"
    /\ UNCHANGED nonScopeVars
    /\ mcp_session' = TRUE
    /\ \E ok \in BOOLEAN :
          /\ opened' = IF ok THEN opened \cup {"session"} ELSE opened
          /\ scope_pc' = IF ok THEN "enter_init" ELSE AEnterFailTarget
          /\ exit_via' = IF ok THEN exit_via ELSE "enter"
          /\ exit_handles' = IF ok THEN exit_handles
                             ELSE HandlesSet(db_conn, TRUE, mcp_client)
    /\ UNCHANGED <<db_conn, mcp_client, rw_set, setup_closed, teardown_log,
                   body_raised, task_outcome>>

\* __aenter__ step 4: mcp_session.initialize(); on success __aenter__
\* returns self and the body of `async with` starts.
SessionInitialize ==
    /\ scope_pc = "enter_init"
    /\ UNCHANGED nonScopeVars
    /\ \E ok \in BOOLEAN :
          /\ scope_pc' = IF ok THEN "body" ELSE AEnterFailTarget
          /\ exit_via' = IF ok THEN exit_via ELSE "enter"
          /\ exit_handles' = IF ok THEN exit_handles
                             ELSE HandlesSet(db_conn, mcp_session, mcp_client)
    /\ UNCHANGED <<db_conn, mcp_session, mcp_client, rw_set, opened,
                   setup_closed, teardown_log, body_raised, task_outcome>>

\* The body of `async with analyzer:` in run_cma_analysis_task:
\* analyzer.run_analysis returns the final state or raises.  It reads the
\* handles and never assigns them; `async with` then awaits __aexit__.
Body ==
    /\ scope_pc = "body"
    /\ UNCHANGED nonScopeVars
    /\ \E raised \in BOOLEAN : body_raised' = raised
    /\ scope_pc' = "exit_db"
    /\ exit_via' = "with"
    /\ exit_handles' = HandlesSet(db_conn, mcp_session, mcp_client)
    /\ UNCHANGED <<db_conn, mcp_session, mcp_client, rw_set, opened,
                   setup_closed, teardown_log, task_outcome>>

\* Where __aexit__ continues when the session's __aexit__ raised: the
\* except clause logs the error and control falls through to the client step.
SessionCloseRaisedPropagates == "exit_raise"
AfterSessionCloseRaised == "exit_client"

\* __aexit__ step 1: if self.db_conn: close it (an exception is logged);
\* finally self.db_conn = None.
ExitDb ==
    /\ scope_pc = "exit_db"
    /\ UNCHANGED nonScopeVars
    /\ IF db_conn
       THEN \E raised \in BOOLEAN :
               teardown_log' = Append(teardown_log,
                                      [res |-> "db", raised |-> raised])
       ELSE teardown_log' = teardown_log
    /\ db_conn' = FALSE
    /\ scope_pc' = "exit_session"
    /\ UNCHANGED <<mcp_session, mcp_client, rw_set, opened, setup_closed,
                   exit_handles, exit_via, body_raised, task_outcome>>

\* __aexit__ step 2: if self.mcp_session: await its __aexit__ (an exception
\* is logged); finally self.mcp_session = None.
ExitSession ==
    /\ scope_pc = "exit_session"
    /\ UNCHANGED nonScopeVars
    /\ IF mcp_session
       THEN \E raised \in BOOLEAN :
               /\ teardown_log' = Append(teardown_log,
                                         [res |-> "session", raised |-> raised])
               /\ scope_pc' = IF raised THEN AfterSessionCloseRaised
                                        ELSE "exit_client"
       ELSE /\ teardown_log' = teardown_log
            /\ scope_pc' = "exit_client"
    /\ mcp_session' = FALSE
    /\ UNCHANGED <<db_conn, mcp_client, rw_set, opened, setup_closed,
                   exit_handles, exit_via, body_raised, task_outcome>>

\* __aexit__ step 3: if self.mcp_client: await its __aexit__ (an exception
\* is logged); finally mcp_client, read and write are cleared.
ExitClient ==
    /\ scope_pc = "exit_client"
    /\ UNCHANGED nonScopeVars
    /\ IF mcp_client
       THEN \E raised \in BOOLEAN :
               teardown_log' = Append(teardown_log,
                                      [res |-> "client", raised |-> raised])
       ELSE teardown_log' = teardown_log
    /\ mcp_client' = FALSE
    /\ rw_set' = FALSE
    /\ scope_pc' = "exit_end"
    /\ UNCHANGED <<db_conn, mcp_session, opened, setup_closed, exit_handles,
                   exit_via, body_raised, task_outcome>>

\* __aexit__ returns None.  Called from __aenter__'s except clause the
\* entry failure is re-raised; called by `async with` a body exception
\* propagates, otherwise run_cma_analysis_task returns the final state.
ExitEnd ==
    /\ scope_pc \in {"exit_end", "raise_entry", "exit_raise"}
    /\ UNCHANGED nonScopeVars
    /\ scope_pc' = "finished"
    /\ task_outcome' = IF scope_pc = "exit_raise" THEN "raised_teardown"
                       ELSE IF exit_via = "enter" THEN "raised_entry"
                       ELSE IF body_raised THEN "raised_body"
                       ELSE "returned"
    /\ UNCHANGED <<db_conn, mcp_session, mcp_client, rw_set, opened,
                   setup_closed, exit_handles, teardown_log, exit_via,
                   body_raised>>

ScopeNext ==
    \/ Construct
    \/ SetupDatabase
    \/ ClientEnter
    \/ SessionEnter
    \/ SessionInitialize
    \/ Body
    \/ ExitDb
    \/ ExitSession
    \/ ExitClient
    \/ ExitEnd

-----------------------------------------------------------------------------
(* One analysis run: data                                                  *)

\* Sheet names are sequences of characters.  The workbook's sheet names are
\* abbreviated to the initials of their words: "P L" stands for
\* "Profit & Loss Statement", "B S" for "Balance Sheet", "F F" for
\* "Fund Flow", "S S" for "Summary Sheet", "R" for "Ratio".
ProfitLoss == <<"P", " ", "L">>
BalanceSheet == <<"B", " ", "S">>
BalanceSheet2 == <<"B", " ", "S", "2">>
FundFlow == <<"F", " ", "F">>
SummarySheet == <<"S", " ", "S">>
Ratio == <<"R">>

Digits == {"0", "1", "2"}

\* str.lower() on one character.
LowerChar(c) ==
    CASE c = "P" -> "p" [] c = "L" -> "l" [] c = "B" -> "b" [] c = "S" -> "s"
      [] c = "F" -> "f" [] c = "R" -> "r" [] c = "A" -> "a" [] c = "C" -> "c"
      [] c = "X" -> "x" [] OTHER -> c

\* str.lower()
Lower(s) == [i \in DOMAIN s |-> LowerChar(s[i])]

\* re.sub(r'\d+$', '', s): drop the trailing run of digits.
RECURSIVE StripTrailingDigits(_)
StripTrailingDigits(s) ==
    IF s # <<>> /\ s[Len(s)] \in Digits
    THEN StripTrailingDigits(SubSeq(s, 1, Len(s) - 1))
    ELSE s

\* str.strip(): drop leading and trailing blanks.
RECURSIVE Strip(_)
Strip(s) ==
    IF s # <<>> /\ s[Len(s)] = " " THEN Strip(SubSeq(s, 1, Len(s) - 1))
    ELSE IF s # <<>> /\ s[1] = " " THEN Strip(Tail(s))
    ELSE s

\* base_name = re.sub(r'\d+$', '', sheet_name).strip()
BaseName(sheet_name) == Strip(StripTrailingDigits(sheet_name))

\* config["sheets_to_analyze"] as shipped: "profit & loss statement",
\* "balance sheet", "balance sheet2", "fund flow", "fund flow2".
SheetsToAnalyzeConfig ==
    { Lower(ProfitLoss), Lower(BalanceSheet), Lower(BalanceSheet2),
      Lower(FundFlow), Lower(FundFlow \o <<"2">>) }

\* Keys of PromptGenerator.prompts and of GraphPromptGenerator.prompts.
AnalysisPromptKeys == { Lower(ProfitLoss), Lower(BalanceSheet), Lower(FundFlow) }
GraphPromptKeys == { Lower(BalanceSheet), Lower(ProfitLoss), Lower(FundFlow) }

\* FinancialDataExtractor.sheets_to_process
AlertSheetsToProcess ==
    <<ProfitLoss, BalanceSheet, BalanceSheet2, SummarySheet, Ratio>>

\* Python dicts keep insertion order: a dict is a sequence of [k, v] items.
DictKeys(d) == [i \in DOMAIN d |-> d[i].k]
DictHas(d, key) == \E i \in DOMAIN d : d[i].k = key
DictGet(d, key) == d[CHOOSE i \in DOMAIN d : d[i].k = key].v
DictSet(d, key, val) ==
    IF DictHas(d, key)
    THEN [i \in DOMAIN d |-> IF d[i].k = key THEN [k |-> key, v |-> val]
                                             ELSE d[i]]
    ELSE Append(d, [k |-> key, v |-> val])

SeqRange(s) == {s[i] : i \in DOMAIN s}

\* [s for s in sheet_names if s.lower() in configured_sheets]
RECURSIVE FilterSheets(_, _)
FilterSheets(names, configured) ==
    IF names = <<>> THEN <<>>
    ELSE IF Lower(Head(names)) \in configured
         THEN <<Head(names)>> \o FilterSheets(Tail(names), configured)
         ELSE FilterSheets(Tail(names), configured)

\* sheet_names_to_process of extract_excel: every sheet of the workbook, or
\* the configured ones when config["sheets_to_analyze"] is non-empty.
SheetNamesToProcess(names, configured) ==
    IF configured # {} THEN FilterSheets(names, configured) ELSE names

-----------------------------------------------------------------------------
(* One analysis run: the workflow executor                                 *)

\* Largest number of environment anomalies in one run: an exception raised
\* by file I/O, by the spreadsheet reader, by the model or by the code
\* executor, or a malformed model answer.
MaxFaults == 1

\* compiled_workflow.ainvoke(initial_state, {"recursion_limit": 15})
RecursionLimit == 15

Nodes == {"extract_excel", "graph_data_node", "analyze_sheets",
          "summarize_report", "customer_alert"}

\* workflow.set_entry_point / add_edge / set_finish_point
EntryPoint == "extract_excel"
ForkedWorkflowEdges ==
    { <<"extract_excel", "graph_data_node">>,
      <<"extract_excel", "analyze_sheets">>,
      <<"graph_data_node", "summarize_report">>,
      <<"analyze_sheets", "summarize_report">>,
      <<"summarize_report", "customer_alert">> }
WorkflowEdges ==
    { <<"extract_excel", "graph_data_node">>,
      <<"graph_data_node", "analyze_sheets">>,
      <<"analyze_sheets", "summarize_report">>,
      <<"summarize_report", "customer_alert">> }

Successors(ns) == {e[2] : e \in {d \in WorkflowEdges : d[1] \in ns}}

\* The workbooks a run is given.
Workbooks ==
    { <<ProfitLoss, BalanceSheet, BalanceSheet2, FundFlow, SummarySheet, Ratio>>,
      <<ProfitLoss, BalanceSheet, BalanceSheet2, FundFlow>>,
      <<BalanceSheet, SummarySheet>> }

\* The sets of sheet names the data format file has a template for.
TemplateSets == { {ProfitLoss, BalanceSheet, FundFlow}, {BalanceSheet}, {} }

RunIdle ==
    /\ workbook = <<>>
    /\ configured_sheets = {}
    /\ templates = {}
    /\ wf_status = "idle"
    /\ wf_next = {}
    /\ wf_active = {}
    /\ wf_done = {}
    /\ wf_step = 0
    /\ node_log = <<>>
    /\ node_pc = [n \in Nodes |-> "begin"]
    /\ loop_i = [n \in Nodes |-> 1]
    /\ extracted_sheets_data = <<>>
    /\ sheets_data = <<>>
    /\ sheets_to_analyze = <<>>
    /\ graph_inputs = <<>>
    /\ insights = <<>>
    /\ final_report = ""
    /\ error_logs = <<>>
    /\ graph_data = "unbound"
    /\ generated_code = "unbound"
    /\ knowledge_df = "empty"
    /\ audit_data_files = <<>>
    /\ audit_rows = <<>>
    /\ llm_calls = <<>>
    /\ failures = {}
    /\ faults = 0
    /\ response = [status |-> 0, has_run_errors |-> FALSE, run_errors |-> <<>>]

\* State when compiled_workflow.ainvoke is called: initial_state of
\* run_analysis, the entry point scheduled.
RunInit ==
    /\ workbook \in Workbooks
    /\ configured_sheets \in {SheetsToAnalyzeConfig, {}}
    /\ templates \in TemplateSets
    /\ wf_status = "running"
    /\ wf_next = {EntryPoint}
    /\ wf_active = {}
    /\ wf_done = {}
    /\ wf_step = 1
    /\ node_log = <<>>
    /\ node_pc = [n \in Nodes |-> "begin"]
    /\ loop_i = [n \in Nodes |-> 1]
    /\ extracted_sheets_data = <<>>
    /\ sheets_data = <<>>
    /\ sheets_to_analyze = <<>>
    /\ graph_inputs = <<>>
    /\ insights = <<>>
    /\ final_report = ""
    /\ error_logs = <<>>
    /\ graph_data = "unbound"
    /\ generated_code = "unbound"
    /\ knowledge_df = "empty"
    /\ audit_data_files = <<>>
    /\ audit_rows = <<>>
    /\ llm_calls = <<>>
    /\ failures = {}
    /\ faults = 0
    /\ response = [status |-> 0, has_run_errors |-> FALSE, run_errors |-> <<>>]

\* State of the resource scope while the body of `async with` runs:
\* __aenter__ succeeded, every handle is set.
ScopeEntered ==
    /\ scope_pc = "body"
    /\ db_conn = TRUE
    /\ mcp_session = TRUE
    /\ mcp_client = TRUE
    /\ rw_set = TRUE
    /\ opened = Resources
    /\ setup_closed = FALSE
    /\ exit_handles = {}
    /\ teardown_log = <<>>
    /\ exit_via = "none"
    /\ body_raised = FALSE
    /\ task_outcome = "pending"

\* The executor starts a scheduled node.
StartNode ==
    /\ wf_status = "running"
    /\ \E n \in wf_next \ (wf_active \cup wf_done) :
          /\ wf_active' = wf_active \cup {n}
          /\ node_log' = Append(node_log, [ev |-> "start", node |-> n])
          /\ node_pc' = [node_pc EXCEPT ![n] = "begin"]
          /\ loop_i' = [loop_i EXCEPT ![n] = 1]
    /\ UNCHANGED <<workbook, configured_sheets, templates, wf_status, wf_next,
                   wf_done, wf_step, extracted_sheets_data, sheets_data,
                   sheets_to_analyze, graph_inputs, insights, final_report,
                   error_logs, graph_data, generated_code, knowledge_df,
                   audit_data_files, audit_rows, llm_calls, failures, faults,
                   response>>
    /\ UNCHANGED nonRunVars

\* Node n returned: when every node of the step has finished the executor
\* schedules the successors, or returns the final state when there are none.
\* More steps than the recursion limit end the invocation with an error.
NodeReturns(n) ==
    /\ wf_active' = wf_active \ {n}
    /\ node_log' = Append(node_log, [ev |-> "end", node |-> n])
    /\ IF wf_next \subseteq wf_done \cup {n}
       THEN /\ wf_done' = {}
            /\ wf_next' = Successors(wf_next)
            /\ wf_step' = IF Successors(wf_next) = {} THEN wf_step
                          ELSE wf_step + 1
            /\ wf_status' = IF Successors(wf_next) = {} THEN "returned"
                            ELSE IF wf_step + 1 > RecursionLimit THEN "raised"
                            ELSE "running"
       ELSE /\ wf_done' = wf_done \cup {n}
            /\ UNCHANGED <<wf_next, wf_step, wf_status>>

\* Node n raised: the exception leaves compiled_workflow.ainvoke.
NodeRaises(n) ==
    /\ wf_active' = wf_active \ {n}
    /\ node_log' = Append(node_log, [ev |-> "raise", node |-> n])
    /\ wf_status' = "raised"
    /\ UNCHANGED <<wf_next, wf_done, wf_step>>

Running(n) == wf_status = "running" /\ n \in wf_active

inputVars == <<workbook, configured_sheets, templates>>
wfVars == <<wf_status, wf_next, wf_active, wf_done, wf_step, node_log>>

-----------------------------------------------------------------------------
(* Node extract_excel: extract_data_from_excel_to_markdown                  *)

\* re.sub(r'[-, ]+', '_', s): each maximal run of '-', ',' and ' ' becomes
\* one underscore.
RECURSIVE SubSeparators(_)
SubSeparators(s) ==
    IF s = <<>> THEN <<>>
    ELSE IF Head(s) \in {"-", ",", " "}
         THEN IF Len(s) > 1 /\ s[2] \in {"-", ",", " "}
              THEN SubSeparators(Tail(s))
              ELSE <<"_">> \o SubSeparators(Tail(s))
         ELSE <<Head(s)>> \o SubSeparators(Tail(s))

\* md_file_name = f"{safe_filename_base}_{self.timestamp}.md".lower(); the
\* timestamp and the suffix are the same for every file of a run.
MdFileName(filename_base) == Lower(SubSeparators(filename_base))

\* The sheets this run's extract_excel iterates over.
ExtractNames == SheetNamesToProcess(workbook, configured_sheets)

\* extracted_sheets_data[base_name] += "\n\n---\n\n" + text, or = text for
\* a new base name: the value is the list of sheets whose tables the text
\* holds, in order, each two parted by the rule.  KeepLastSheet is the
\* assignment that overwrites.
KeepLastSheet(extracted, sheet_name) ==
    DictSet(extracted, BaseName(sheet_name), <<sheet_name>>)
Aggregate(extracted, sheet_name) ==
    LET base_name == BaseName(sheet_name) IN
    IF DictHas(extracted, base_name)
    THEN DictSet(extracted, base_name,
                 Append(DictGet(extracted, base_name), sheet_name))
    ELSE DictSet(extracted, base_name, <<sheet_name>>)

\* The workbook is checked and opened: a missing file raises
\* FileNotFoundError, an unreadable one raises from pd.ExcelFile; both are
\* re-raised by the node.
ExtractOpen ==
    /\ Running("extract_excel")
    /\ node_pc["extract_excel"] = "begin"
    /\ \E ok \in BOOLEAN :
          IF ok
          THEN /\ node_pc' = [node_pc EXCEPT !["extract_excel"] =
                                 IF ExtractNames = <<>> THEN "save" ELSE "sheets"]
               /\ UNCHANGED <<wfVars, faults>>
          ELSE /\ faults < MaxFaults
               /\ faults' = faults + 1
               /\ NodeRaises("extract_excel")
               /\ UNCHANGED node_pc
    /\ UNCHANGED <<inputVars, loop_i, extracted_sheets_data, sheets_data,
                   sheets_to_analyze, graph_inputs, insights, final_report,
                   error_logs, graph_data, generated_code, knowledge_df,
                   audit_data_files, audit_rows, llm_calls, failures, response>>
    /\ UNCHANGED nonRunVars

\* One iteration of `for sheet_name in sheet_names_to_process`: the sheet is
\* read and aggregated under its base name, or the exception is caught and
\* appended to error_logs.
ExtractSheet ==
    /\ Running("extract_excel")
    /\ node_pc["extract_excel"] = "sheets"
    /\ LET i == loop_i["extract_excel"]
           sheet_name == ExtractNames[i]
       IN  /\ \E ok \in BOOLEAN :
                 IF ok
                 THEN /\ extracted_sheets_data' =
                            Aggregate(extracted_sheets_data, sheet_name)
                      /\ UNCHANGED <<error_logs, failures, faults>>
                 ELSE /\ faults < MaxFaults
                      /\ faults' = faults + 1
                      /\ error_logs' = Append(error_logs,
                            [kind |-> "Excel Processing Error",
                             sheet |-> sheet_name])
                      /\ failures' = failures \cup
                            {[step |-> "ingestion", sheet |-> sheet_name]}
                      /\ UNCHANGED extracted_sheets_data
           /\ loop_i' = [loop_i EXCEPT !["extract_excel"] = i + 1]
           /\ node_pc' = [node_pc EXCEPT !["extract_excel"] =
                             IF i = Len(ExtractNames) THEN "save" ELSE "sheets"]
    /\ UNCHANGED <<inputVars, wfVars, sheets_data, sheets_to_analyze,
                   graph_inputs, insights, final_report, graph_data,
                   generated_code, knowledge_df, audit_data_files, audit_rows,
                   llm_calls, response>>
    /\ UNCHANGED nonRunVars

\* The loop that saves each aggregated text as a markdown file, and the
\* node's return value.  A file that cannot be written is left out of
\* graph_inputs and reported in error_logs.
ExtractSave ==
    /\ Running("extract_excel")
    /\ node_pc["extract_excel"] = "save"
    /\ \E unwritable \in SUBSET SeqRange(DictKeys(extracted_sheets_data)) :
          /\ faults + Cardinality(unwritable) <= MaxFaults
          /\ faults' = faults + Cardinality(unwritable)
          /\ LET written == SelectSeq(extracted_sheets_data,
                                      LAMBDA it : it.k \notin unwritable)
                 lost == SelectSeq(extracted_sheets_data,
                                   LAMBDA it : it.k \in unwritable)
             IN  /\ graph_inputs' = [i \in DOMAIN written |->
                        [k |-> written[i].k, v |-> MdFileName(written[i].k)]]
                 /\ error_logs' = error_logs \o [i \in DOMAIN lost |->
                        [kind |-> "File Write Error (Extracted MD)",
                         sheet |-> MdFileName(lost[i].k)]]
                 /\ failures' = failures \cup
                        {[step |-> "ingestion", sheet |-> b] : b \in unwritable}
    /\ sheets_data' = extracted_sheets_data
    /\ sheets_to_analyze' = DictKeys(extracted_sheets_data)
    /\ node_pc' = [node_pc EXCEPT !["extract_excel"] = "done"]
    /\ NodeReturns("extract_excel")
    /\ UNCHANGED <<inputVars, loop_i, extracted_sheets_data, insights,
                   final_report, graph_data, generated_code, knowledge_df,
                   audit_data_files, audit_rows, llm_calls, response>>
    /\ UNCHANGED nonRunVars

-----------------------------------------------------------------------------
(* Audit logging and node graph_data_node: graph_data_agent                 *)

\* _log_llm_call: nothing is written without a connection; a status other
\* than 'completed' or 'failed' is stored as 'failed'.  The database is
\* taken to accept the insert.
LogLlmCall(rows, langgraph_node, sheet, status) ==
    IF ~db_conn THEN rows
    ELSE Append(rows, [node |-> langgraph_node, sheet |-> sheet,
                       status |-> IF status \in {"completed", "failed"}
                                  THEN status ELSE "failed"])

\* A model invocation that was made (ghost).
LlmCall(site, sheet, raised) == [site |-> site, sheet |-> sheet, raised |-> raised]

Cost(anomaly) == IF anomaly THEN 1 ELSE 0

\* GraphPromptGenerator.get_sheet_specific_prompt: None without a template
\* for the lower-cased sheet name.
GraphPromptAvailable(sheet_name) == Lower(sheet_name) \in GraphPromptKeys

\* One iteration of `for sheet_name, file_path in graph_input.items()`.
\*   read: the markdown file is read ("text"), is empty ("empty"), or the
\*         open raises ("missing": `data` keeps its previous binding);
\*   llm:  the model returns a script ("code"), empty content ("empty"), an
\*         object without content ("nocontent"), or the call raises;
\*   repl: the script runs ("ok") or PythonREPLTool raises ("raise").
\* `if not data` reads `data` outside any try: with `data` unbound the
\* UnboundLocalError leaves the node.  A model exception ends the node with
\* `return state`.  The finally clause logs one audit row for every
\* iteration that reached the second try.
GraphSheet ==
    /\ Running("graph_data_node")
    /\ loop_i["graph_data_node"] <= Len(graph_inputs)
    /\ LET i == loop_i["graph_data_node"]
           sheet_name == graph_inputs[i].k
       IN
       \E read \in {"text", "empty", "missing"},
          llm \in {"code", "empty", "nocontent", "raise"},
          repl \in {"ok", "raise"} :
          LET data == IF read = "missing" THEN graph_data ELSE read
              unbound == data = "unbound"
              prompted == ~unbound /\ GraphPromptAvailable(sheet_name)
              code == IF ~prompted \/ llm \in {"nocontent", "raise"}
                      THEN generated_code ELSE llm
              executes == prompted /\ llm # "raise"
                              /\ code \notin {"unbound", "empty"}
              status == IF prompted /\ llm \in {"code", "empty"} /\ executes
                        THEN "completed" ELSE "failed"
              failed == read = "missing"
                           \/ (prompted /\ llm # "code")
                           \/ (executes /\ repl = "raise")
              cost == Cost(read # "text") + Cost(llm # "code")
                          + Cost(repl # "ok")
          IN  /\ prompted \/ llm = "code"
              /\ executes \/ repl = "ok"
              /\ faults + cost <= MaxFaults
              /\ faults' = faults + cost
              /\ graph_data' = data
              /\ generated_code' = code
              /\ failures' = IF failed
                             THEN failures \cup {[step |-> "chart",
                                                  sheet |-> sheet_name]}
                             ELSE failures
              /\ llm_calls' = IF prompted
                              THEN Append(llm_calls,
                                     LlmCall("graph_data_agent", sheet_name,
                                             llm = "raise"))
                              ELSE llm_calls
              /\ audit_rows' = IF unbound THEN audit_rows
                               ELSE LogLlmCall(audit_rows, "graph_data_agent",
                                               <<>>, status)
              /\ loop_i' = [loop_i EXCEPT !["graph_data_node"] = i + 1]
              /\ IF unbound THEN NodeRaises("graph_data_node")
                 ELSE IF prompted /\ llm = "raise"
                      THEN NodeReturns("graph_data_node")
                      ELSE UNCHANGED wfVars
    /\ UNCHANGED <<inputVars, node_pc, extracted_sheets_data, sheets_data,
                   sheets_to_analyze, graph_inputs, insights, final_report,
                   error_logs, knowledge_df, audit_data_files, response>>
    /\ UNCHANGED nonRunVars

\* `if graph_input:` is false, or the for loop is exhausted: the node
\* returns None and the state is left as it is.
GraphReturn ==
    /\ Running("graph_data_node")
    /\ loop_i["graph_data_node"] > Len(graph_inputs)
    /\ NodeReturns("graph_data_node")
    /\ UNCHANGED <<inputVars, node_pc, loop_i, extracted_sheets_data,
                   sheets_data, sheets_to_analyze, graph_inputs, insights,
                   final_report, error_logs, graph_data, generated_code,
                   knowledge_df, audit_data_files, audit_rows, llm_calls,
                   failures, faults, response>>
    /\ UNCHANGED nonRunVars

-----------------------------------------------------------------------------
(* Node analyze_sheets: the data formatting sub-step                        *)

ErrorEntry(kind, sheet) == [kind |-> kind, sheet |-> sheet]

\* Python truthiness of a formatting result: None and "" are falsy.
Truthy(result) == result \notin {"none", "empty"}

\* extract_data_in_required_format(state, sheet_name) for a sheet with data.
\*   fmt: "file_missing" / "file_corrupt": the data format file is not there
\*        or cannot be parsed; "raise": the model call raises; otherwise the
\*        kind of text the model returns: "dict_date" (a dict literal with a
\*        Date column), "dict_nodate", "dict_bad" (a dict pandas rejects),
\*        "nondict", "unparsable", "empty", or "nocontent" (an object
\*        without content, kept as str(object));
\*   saved: the extract could be written to extracted_metrics/.
\* The result is the returned text (or "none"), the error_logs entries, the
\* model call made, and the status of the audit row written by the finally
\* clause of the second try ("none": that try was not entered).
FormatOutcomes == {"dict_date", "dict_nodate", "dict_bad", "nondict",
                   "unparsable", "empty", "nocontent", "raise",
                   "file_missing", "file_corrupt"}

ExtractDataInRequiredFormat(sheet_name, fmt, saved) ==
    IF fmt = "file_missing"
    THEN [result |-> "none", row |-> "none", called |-> FALSE, raised |-> FALSE,
          errs |-> <<ErrorEntry("Config Error: Data format file not found",
                                sheet_name)>>]
    ELSE IF fmt = "file_corrupt"
    THEN [result |-> "none", row |-> "none", called |-> FALSE, raised |-> FALSE,
          errs |-> <<ErrorEntry("Config Error: Failed to load data format",
                                sheet_name)>>]
    ELSE IF sheet_name \notin templates
    THEN [result |-> "none", row |-> "none", called |-> FALSE, raised |-> FALSE,
          errs |-> <<>>]
    ELSE IF fmt = "raise"
    THEN [result |-> "none", row |-> "failed", called |-> TRUE, raised |-> TRUE,
          errs |-> <<ErrorEntry("LLM Formatting Error", sheet_name)>>]
    ELSE IF fmt = "nocontent"
    THEN [result |-> "nocontent", row |-> "failed", called |-> TRUE,
          raised |-> FALSE, errs |-> <<>>]
    ELSE [result |-> fmt, row |-> "completed", called |-> TRUE, raised |-> FALSE,
          errs |-> IF saved THEN <<>>
                   ELSE <<ErrorEntry("File Write Error (Formatted Data)",
                                     sheet_name)>>]

\* Whether the choice (fmt, saved) is one the sub-step can take for the
\* sheet, each unused choice held at its nominal value.
FormatChoiceOk(sheet_name, fmt, saved) ==
    /\ sheet_name \notin templates
          => fmt \in {"dict_date", "file_missing", "file_corrupt"}
    /\ (sheet_name \notin templates
           \/ fmt \in {"raise", "nocontent", "file_missing", "file_corrupt"})
          => saved

FormatCost(sheet_name, fmt, saved) ==
    Cost(fmt \in {"file_missing", "file_corrupt"}
            \/ (sheet_name \in templates /\ fmt # "dict_date"))
      + Cost(~saved)

\* The formatted text becomes a DataFrame and joins knowledge_df:
\* ast.literal_eval, the isinstance check and pd.DataFrame raise on text that
\* is no usable dict; an empty knowledge_df takes the new frame (pd.concat),
\* otherwise pd.merge(on='Date') raises unless both frames have the column.
\* "raise" is the exception; frames that merge are taken to share dates.
JoinKnowledge(kdf, result) ==
    IF result \notin {"dict_date", "dict_nodate"} THEN "raise"
    ELSE LET temp_df == IF result = "dict_date" THEN "date" ELSE "nodate" IN
         IF kdf = "empty" THEN temp_df
         ELSE IF kdf = "date" /\ temp_df = "date" THEN "date"
         ELSE "raise"

\* PromptGenerator.get_sheet_specific_prompt: the template (or the default
\* prompt) is filled with state["llm_agent_result"] when that is truthy,
\* and otherwise with state.get("sheets_data", {}).get([sheet_name.lower()]),
\* a lookup with a list as the key, which raises TypeError.
GetSheetSpecificPrompt(sheet_name, llm_agent_result) ==
    IF Truthy(llm_agent_result) THEN "prompt" ELSE "TypeError"

-----------------------------------------------------------------------------
(* Node analyze_sheets: analyze_markdown_and_generate_report                *)

\* Messages of an agent result.  A tool message's content is a table ("t1",
\* "t2": JSON with a Date column), an error text ("Error") or text that is
\* no JSON table ("bad"); an assistant message's content is a report ("a1",
\* "a2"), a report that mentions "Error:" ("aErr") or a tool call ("call").
Msg(type, content) == [type |-> type, content |-> content]

NominalConversation ==
    <<Msg("human", "prompt"), Msg("ai", "call"), Msg("tool", "t1"),
      Msg("ai", "a1")>>

Conversations ==
    { NominalConversation,
      <<Msg("human", "prompt"), Msg("ai", "a1")>>,
      <<Msg("human", "prompt"), Msg("ai", "call"), Msg("tool", "Error"),
        Msg("ai", "call"), Msg("tool", "t1"), Msg("ai", "a1")>>,
      <<Msg("human", "prompt"), Msg("ai", "call"), Msg("tool", "t1"),
        Msg("ai", "call"), Msg("tool", "t2"), Msg("ai", "a2")>>,
      <<Msg("human", "prompt"), Msg("ai", "call"), Msg("tool", "bad"),
        Msg("ai", "a1")>>,
      <<Msg("human", "prompt"), Msg("ai", "call"), Msg("tool", "t1"),
        Msg("ai", "aErr")>>,
      <<Msg("human", "prompt")>> }

\* next((msg for msg in messages if isinstance(msg, ToolMessage)
\*       and not str(msg.content).__contains__("Error")), None)
UsableToolIndexes(messages) ==
    {i \in DOMAIN messages :
        messages[i].type = "tool" /\ messages[i].content # "Error"}
ToolMessageIndex(messages) ==
    CHOOSE i \in UsableToolIndexes(messages) :
        \A j \in UsableToolIndexes(messages) : i <= j

\* next((msg for msg in reversed(messages) if isinstance(msg, AIMessage)), None)
AiIndexes(messages) == {i \in DOMAIN messages : messages[i].type = "ai"}
FinalAiIndex(messages) ==
    CHOOSE i \in AiIndexes(messages) : \A j \in AiIndexes(messages) : j <= i

\* The substrings "Error:" and "Skipped:" a text contains.
Marks(content) == IF content = "aErr" THEN {"Error:"} ELSE {}
Insight(text, marks) == [text |-> text, marks |-> marks]

\* What llm_agent_executor.ainvoke does: it raises, returns something
\* without a "messages" list ("invalid"), or returns a conversation.
AgentResult(kind, messages) == [kind |-> kind, messages |-> messages]
NominalAgentResult == AgentResult("messages", NominalConversation)
AgentOutcomes ==
    {AgentResult("raise", <<>>), AgentResult("invalid", <<>>)}
        \cup {AgentResult("messages", c) : c \in Conversations}

\* The part of one loop iteration after the prompt was built.
\*   agent: the outcome of the agent invocation;
\*   audit_ok / report_ok: the audit table / the report could be written.
\* The result: the insight stored, the error_logs entries, the audit row's
\* status ("none": no row), knowledge_df afterwards, and the tool message
\* persisted as audit data ("none": no file).
AgentStep(sheet_name, kdf, agent, audit_ok, report_ok) ==
    LET critical == [insight |-> Insight("Error: Analysis failed critically",
                                         {"Error:"}),
                     errs |-> <<ErrorEntry("Analysis Error", sheet_name)>>,
                     kdf |-> kdf, audit |-> "none"]
        messages == agent.messages
    IN
    IF agent.kind = "raise" THEN critical @@ [row |-> "none"]
    ELSE IF agent.kind = "invalid"
    THEN [insight |-> Insight("Error: Agent returned invalid result",
                              {"Error:"}),
          errs |-> <<ErrorEntry("Agent Error (Invalid Result)", sheet_name)>>,
          row |-> "failed", kdf |-> kdf, audit |-> "none"]
    ELSE
    LET has_tool == UsableToolIndexes(messages) # {}
        tool == IF has_tool THEN messages[ToolMessageIndex(messages)].content
                ELSE "none"
        merged == IF ~has_tool THEN kdf
                  ELSE IF tool = "bad" \/ kdf # "date" THEN "raise"
                  ELSE "date"
    IN
    IF merged = "raise" \/ (has_tool /\ ~audit_ok)
    THEN critical @@ [row |-> "completed"]
    ELSE IF AiIndexes(messages) = {}
    THEN [insight |-> Insight("Error: No final AI response found", {"Error:"}),
          errs |-> <<ErrorEntry("Agent Error (No Final Msg)", sheet_name)>>,
          row |-> "completed", kdf |-> merged, audit |-> tool]
    ELSE IF ~report_ok
    THEN [insight |-> Insight("Error: Failed to save report", {"Error:"}),
          errs |-> <<ErrorEntry("File Write Error (Report)", sheet_name)>>,
          row |-> "completed", kdf |-> merged, audit |-> tool]
    ELSE LET final_content == messages[FinalAiIndex(messages)].content IN
         [insight |-> Insight(final_content, Marks(final_content)),
          errs |-> <<>>, row |-> "completed", kdf |-> merged, audit |-> tool]

AgentChoiceOk(agent, audit_ok, report_ok) ==
    /\ UsableToolIndexes(agent.messages) = {} => audit_ok
    /\ AiIndexes(agent.messages) = {} => report_ok

AgentCost(agent, audit_ok, report_ok) ==
    Cost(agent # NominalAgentResult) + Cost(~audit_ok) + Cost(~report_ok)

\* analysis_insights[sheet_name] = ...: every path of an iteration stores a
\* report or a placeholder (DropCriticalFailure: were the handler of the
\* iteration to log the exception only).
DropCriticalFailure(ins, sheet_name, insight) ==
    IF insight.text = "Error: Analysis failed critically" THEN ins
    ELSE DictSet(ins, sheet_name, insight)
StoreInsight(ins, sheet_name, insight) == DictSet(ins, sheet_name, insight)

\* One iteration of `for sheet_name in sheets_to_analyze`, its try/except
\* included: whatever is raised inside the iteration is caught, stored as a
\* placeholder insight and an error_logs entry, and the loop continues.
AnalyzeSheet ==
    /\ Running("analyze_sheets")
    /\ loop_i["analyze_sheets"] <= Len(sheets_to_analyze)
    /\ LET i == loop_i["analyze_sheets"]
           sheet_name == sheets_to_analyze[i]
       IN
       IF ~DictHas(sheets_data, sheet_name)
       THEN /\ insights' = StoreInsight(insights, sheet_name,
                               Insight("Error: No data found in state.",
                                       {"Error:"}))
            /\ error_logs' = Append(error_logs,
                               ErrorEntry("Analysis Skip (No Data)", sheet_name))
            /\ failures' = failures \cup
                               {[step |-> "analysis", sheet |-> sheet_name]}
            /\ loop_i' = [loop_i EXCEPT !["analyze_sheets"] = i + 1]
            /\ UNCHANGED <<knowledge_df, audit_data_files, audit_rows,
                           llm_calls, faults>>
       ELSE
       \E fmt \in FormatOutcomes, saved \in BOOLEAN, agent \in AgentOutcomes,
          audit_ok \in BOOLEAN, report_ok \in BOOLEAN :
          LET f == ExtractDataInRequiredFormat(sheet_name, fmt, saved)
              joined == IF Truthy(f.result)
                        THEN JoinKnowledge(knowledge_df, f.result)
                        ELSE knowledge_df
              llm_agent_result == IF Truthy(f.result) THEN f.result ELSE "empty"
              prompt == IF joined = "raise" THEN "none"
                        ELSE GetSheetSpecificPrompt(sheet_name, llm_agent_result)
              invoked == prompt = "prompt"
              a == IF invoked
                   THEN AgentStep(sheet_name, joined, agent, audit_ok, report_ok)
                   ELSE [insight |-> Insight("Error: Analysis failed critically",
                                             {"Error:"}),
                         errs |-> <<ErrorEntry("Analysis Error", sheet_name)>>,
                         row |-> "none", kdf |-> knowledge_df,
                         audit |-> "none"]
              rows1 == IF f.row = "none" THEN audit_rows
                       ELSE LogLlmCall(audit_rows,
                                "extract_data_in_required_format", sheet_name,
                                f.row)
              rows2 == IF a.row = "none" THEN rows1
                       ELSE LogLlmCall(rows1,
                                "analyze_markdown_and_generate_report",
                                sheet_name, a.row)
              calls1 == IF f.called
                        THEN Append(llm_calls,
                                LlmCall("extract_data_in_required_format",
                                        sheet_name, f.raised))
                        ELSE llm_calls
              calls2 == IF invoked
                        THEN Append(calls1,
                                LlmCall("analyze_markdown_and_generate_report",
                                        sheet_name, agent.kind = "raise"))
                        ELSE calls1
              cost == FormatCost(sheet_name, fmt, saved)
                         + AgentCost(agent, audit_ok, report_ok)
          IN  /\ FormatChoiceOk(sheet_name, fmt, saved)
              /\ AgentChoiceOk(agent, audit_ok, report_ok)
              /\ invoked \/ (agent = NominalAgentResult /\ audit_ok /\ report_ok)
              /\ faults + cost <= MaxFaults
              /\ faults' = faults + cost
              /\ insights' = StoreInsight(insights, sheet_name, a.insight)
              /\ error_logs' = error_logs \o f.errs \o a.errs
              /\ failures' = failures
                     \cup (IF f.errs # <<>>
                           THEN {[step |-> "formatting", sheet |-> sheet_name]}
                           ELSE {})
                     \cup (IF "Error:" \in a.insight.marks /\ a.errs # <<>>
                           THEN {[step |-> "analysis", sheet |-> sheet_name]}
                           ELSE {})
              /\ knowledge_df' = IF joined = "raise" THEN knowledge_df ELSE a.kdf
              /\ audit_data_files' = IF a.audit = "none" THEN audit_data_files
                                     ELSE DictSet(audit_data_files, sheet_name,
                                                  a.audit)
              /\ audit_rows' = rows2
              /\ llm_calls' = calls2
              /\ loop_i' = [loop_i EXCEPT !["analyze_sheets"] = i + 1]
    /\ UNCHANGED <<inputVars, wfVars, node_pc, extracted_sheets_data,
                   sheets_data, sheets_to_analyze, graph_inputs, final_report,
                   graph_data, generated_code, response>>
    /\ UNCHANGED nonRunVars

\* The for loop is exhausted: return {"insights": analysis_insights}.
AnalyzeReturn ==
    /\ Running("analyze_sheets")
    /\ loop_i["analyze_sheets"] > Len(sheets_to_analyze)
    /\ NodeReturns("analyze_sheets")
    /\ UNCHANGED <<inputVars, node_pc, loop_i, extracted_sheets_data,
                   sheets_data, sheets_to_analyze, graph_inputs, insights,
                   final_report, error_logs, graph_data, generated_code,
                   knowledge_df, audit_data_files, audit_rows, llm_calls,
                   failures, faults, response>>
    /\ UNCHANGED nonRunVars

-----------------------------------------------------------------------------
(* Nodes summarize_report and customer_alert, and the reply                 *)

\* The insights that go into the synthesis prompt: those whose text holds
\* neither "Error:" nor "Skipped:".
SummaryInputs(ins) ==
    SelectSeq(ins, LAMBDA it : "Error:" \notin it.v.marks
                                  /\ "Skipped:" \notin it.v.marks)

\* generate_cumulative_report.  Without insights, or with none left after
\* the filter, a placeholder is returned and the model is not called.
\* Otherwise the model is called and the report written inside one try: an
\* exception of either is appended to error_logs, and the finally clause
\* logs the audit row.
SummarizeReport ==
    /\ Running("summarize_report")
    /\ IF insights = <<>>
       THEN /\ final_report' = "No analysis insights were generated"
            /\ UNCHANGED <<error_logs, audit_rows, llm_calls, failures, faults>>
       ELSE IF SummaryInputs(insights) = <<>>
       THEN /\ final_report' = "Cumulative report could not be generated"
            /\ UNCHANGED <<error_logs, audit_rows, llm_calls, failures, faults>>
       ELSE \E r \in {"ok", "raise", "write_fail"} :
               /\ faults + Cost(r # "ok") <= MaxFaults
               /\ faults' = faults + Cost(r # "ok")
               /\ llm_calls' = Append(llm_calls,
                      LlmCall("generate_cumulative_report", <<>>, r = "raise"))
               /\ audit_rows' = LogLlmCall(audit_rows,
                      "generate_cumulative_report", <<>>,
                      IF r = "ok" THEN "completed" ELSE "failed")
               /\ IF r = "ok"
                  THEN /\ final_report' = "cumulative report"
                       /\ UNCHANGED <<error_logs, failures>>
                  ELSE /\ final_report' = "Error: Failed to generate cumulative report"
                       /\ error_logs' = Append(error_logs,
                              ErrorEntry("Cumulative Report Error", <<>>))
                       /\ failures' = failures \cup
                              {[step |-> "summary", sheet |-> <<>>]}
    /\ NodeReturns("summarize_report")
    /\ UNCHANGED <<inputVars, node_pc, loop_i, extracted_sheets_data,
                   sheets_data, sheets_to_analyze, graph_inputs, insights,
                   graph_data, generated_code, knowledge_df, audit_data_files,
                   response>>
    /\ UNCHANGED nonRunVars

\* generate_customer_alert.  FinancialDataExtractor.run returns a one-key
\* dict when preprocessing failed (a required sheet is not in the
\* workbook), and unpacking it into (token_use, status) raises.  When the
\* extraction model call raises, extract_math_data_agent reads its unbound
\* `result` and the exception leaves run().  Otherwise run() returns the
\* response and the status, and the node logs one audit row: with output
\* that is no JSON ("unparseable") or a record that lacks a field the
\* derivation reads ("missing_field") the exception is caught inside run().
CustomerAlert ==
    /\ Running("customer_alert")
    /\ IF ~(SeqRange(AlertSheetsToProcess) \subseteq SeqRange(workbook))
       THEN /\ NodeRaises("customer_alert")
            /\ UNCHANGED <<audit_rows, llm_calls, faults>>
       ELSE \E r \in {"ok", "raise", "unparseable", "missing_field"} :
               /\ faults + Cost(r # "ok") <= MaxFaults
               /\ faults' = faults + Cost(r # "ok")
               /\ llm_calls' = Append(llm_calls,
                      LlmCall("customer_alert", <<>>, r = "raise"))
               /\ IF r # "raise"
                  THEN /\ audit_rows' = LogLlmCall(audit_rows, "customer_alert",
                                                   <<>>, "completed")
                       /\ NodeReturns("customer_alert")
                  ELSE /\ NodeRaises("customer_alert")
                       /\ UNCHANGED audit_rows
    /\ UNCHANGED <<inputVars, node_pc, loop_i, extracted_sheets_data,
                   sheets_data, sheets_to_analyze, graph_inputs, insights,
                   final_report, error_logs, graph_data, generated_code,
                   knowledge_df, audit_data_files, failures, response>>
    /\ UNCHANGED nonRunVars

NoResponse == [status |-> 0, has_run_errors |-> FALSE, run_errors |-> <<>>]

\* trigger_analysis after `await run_cma_analysis_task(...)`: the final
\* state's error_logs are returned as run_errors when the list is not empty;
\* an exception of the task is answered with status 500.
Respond ==
    /\ wf_status \in {"returned", "raised"}
    /\ response = NoResponse
    /\ response' =
          IF wf_status = "raised"
          THEN [status |-> 500, has_run_errors |-> FALSE, run_errors |-> <<>>]
          ELSE IF error_logs # <<>>
          THEN [status |-> 200, has_run_errors |-> TRUE,
                run_errors |-> error_logs]
          ELSE [status |-> 200, has_run_errors |-> FALSE, run_errors |-> <<>>]
    /\ UNCHANGED <<inputVars, wfVars, node_pc, loop_i, extracted_sheets_data,
                   sheets_data, sheets_to_analyze, graph_inputs, insights,
                   final_report, error_logs, graph_data, generated_code,
                   knowledge_df, audit_data_files, audit_rows, llm_calls,
                   failures, faults>>
    /\ UNCHANGED nonRunVars

-----------------------------------------------------------------------------
(* Token usage: CMAAnalyzer._extract_token_usage                            *)

\* Largest token count of a response.
MaxTokens == 1

\* The value stored under a token key: the key is absent, holds null, or
\* holds a number.
Count(k, n) == [k |-> k, n |-> n]
Absent == Count("absent", 0)
Null == Count("null", 0)
Num(n) == Count("int", n)
CountValues == {Absent, Null} \cup {Num(n) : n \in 0..MaxTokens}

\* A metadata attribute or dict.  wrap: "missing" (no such attribute, or
\* None), "empty" ({}), "token_usage" / "usage" (the counts sit in that
\* sub-dict), "direct" (the counts are keys of the dict itself; with every
\* count absent the dict holds other keys only).  style: the counts are
\* named prompt_tokens / completion_tokens ("prompt") or input_tokens /
\* output_tokens ("input"); the total is named total_tokens.
Meta(wrap, style, inp, out, tot) ==
    [wrap |-> wrap, style |-> style, inp |-> inp, out |-> out, tot |-> tot]
MissingMeta == Meta("missing", "prompt", Absent, Absent, Absent)
EmptyMeta == Meta("empty", "prompt", Absent, Absent, Absent)
OtherKeysMeta == Meta("direct", "prompt", Absent, Absent, Absent)
CountMetas ==
    {Meta(w, s, i, o, t) :
        w \in {"token_usage", "usage", "direct"}, s \in {"prompt", "input"},
        i \in CountValues, o \in CountValues, t \in CountValues}

\* `x and isinstance(x, dict)` for a metadata attribute.
MetaTruthy(m) == m.wrap \notin {"missing", "empty"}

\* A response: an AIMessage, a plain dict, an agent result (a dict with a
\* "messages" list) or something else (None, a string).
Message(type, response_metadata, usage_metadata) ==
    [type |-> type, response_metadata |-> response_metadata,
     usage_metadata |-> usage_metadata]
Response(type, message, body, messages) ==
    [type |-> type, message |-> message, body |-> body, messages |-> messages]
NoMessage == Message("none", MissingMeta, MissingMeta)

AIMessages ==
    {Message("ai", m, n) : m \in CountMetas, n \in {MissingMeta, EmptyMeta}}
      \cup {Message("ai", n, m) :
               m \in CountMetas, n \in {MissingMeta, OtherKeysMeta}}
      \cup {Message("ai", MissingMeta, MissingMeta)}

ToolReply == Message("tool", MissingMeta, MissingMeta)
HumanPrompt == Message("human", MissingMeta, MissingMeta)

Responses ==
    {Response("AIMessage", m, MissingMeta, <<>>) : m \in AIMessages}
      \cup {Response("dict", NoMessage, b, <<>>) :
               b \in CountMetas \cup {EmptyMeta}}
      \cup {Response("agent", NoMessage, MissingMeta, <<HumanPrompt, m>>) :
               m \in AIMessages}
      \cup {Response("agent", NoMessage, MissingMeta,
                     <<HumanPrompt, m, ToolReply>>) : m \in AIMessages}
      \cup {Response("agent", NoMessage, MissingMeta, <<HumanPrompt>>),
            Response("other", NoMessage, MissingMeta, <<>>)}

ModelNames == {"gpt-4o", "gemini-2.0-flash"}

\* "gpt" in self.model_name.lower() / "gemini" in self.model_name.lower()
Family(model_name) == IF model_name = "gpt-4o" THEN "gpt" ELSE "gemini"


ZeroTokens == [input |-> Num(0), output |-> Num(0), total |-> Num(0)]

\* dict.get(key, 0): an absent key reads as 0, a null value as None.
GetCount(c) == IF c.k = "absent" THEN Num(0) ELSE c

\* 'token_usage' in response or 'usage' in response or 'prompt_tokens' in response
HasUsageKey(body) ==
    \/ body.wrap \in {"token_usage", "usage"}
    \/ body.wrap = "direct" /\ body.style = "prompt" /\ body.inp.k # "absent"

\* The counts read from the metadata dict: from its 'token_usage' / 'usage'
\* sub-dict when that is non-empty, else from the dict's own keys; either
\* key style is accepted.
ReadCounts(m) ==
    [input |-> GetCount(m.inp), output |-> GetCount(m.out),
     total |-> GetCount(m.tot)]

\* if tokens["total"] == 0 and (tokens["input"] > 0 or tokens["output"] > 0):
\*     tokens["total"] = tokens["input"] + tokens["output"]
\* Comparing None with 0 and adding None raise TypeError; the except clause
\* of the function then returns tokens as assigned so far.
WithComputedTotal(tokens) ==
    IF tokens.total = Num(0)
    THEN IF tokens.input.k = "int" /\ tokens.input.n > 0
         THEN IF tokens.output.k = "int"
              THEN [tokens EXCEPT !.total =
                       Num(tokens.input.n + tokens.output.n)]
              ELSE tokens
         ELSE IF tokens.input.k = "int" /\ tokens.output.k = "int"
                    /\ tokens.output.n > 0
              THEN [tokens EXCEPT !.total =
                       Num(tokens.input.n + tokens.output.n)]
              ELSE tokens
    ELSE tokens

\* The metadata dict the function settles on for an AIMessage under
\* "Case 5": usage_metadata first, then response_metadata.
MessageMetadata(message) ==
    IF MetaTruthy(message.usage_metadata) THEN message.usage_metadata
    ELSE IF MetaTruthy(message.response_metadata)
         THEN message.response_metadata
    ELSE MissingMeta

AiMessageIndexes(messages) == {i \in DOMAIN messages : messages[i].type = "ai"}

\* _extract_token_usage(response).  Under a "gpt" model name only
\* response.response_metadata is looked at: the branches for usage_metadata,
\* plain dicts, agent results and AIMessage are elif branches of that test.
\* Every path returns the tokens dict; nothing is raised.
RECURSIVE ExtractTokenUsage(_, _)
ExtractTokenUsage(model_name, resp) ==
    LET is_message == resp.type = "AIMessage"
        is_dict == resp.type \in {"dict", "agent"}
        ai == AiMessageIndexes(resp.messages)
        recurse == /\ Family(model_name) # "gpt"
                   /\ ~(is_message /\ MetaTruthy(resp.message.usage_metadata))
                   /\ ~(is_dict /\ HasUsageKey(resp.body))
                   /\ resp.type = "agent"
                   /\ ai # {}
        metadata_dict ==
            IF Family(model_name) = "gpt"
            THEN IF is_message /\ MetaTruthy(resp.message.response_metadata)
                 THEN resp.message.response_metadata
                 ELSE MissingMeta
            ELSE IF is_message /\ MetaTruthy(resp.message.usage_metadata)
                 THEN resp.message.usage_metadata
            ELSE IF is_dict /\ HasUsageKey(resp.body) THEN resp.body
            ELSE IF resp.type = "agent" THEN MissingMeta
            ELSE IF is_message THEN MessageMetadata(resp.message)
            ELSE MissingMeta
    IN  IF recurse
        THEN ExtractTokenUsage(model_name,
                 Response("AIMessage",
                          resp.messages[CHOOSE i \in ai :
                                               \A j \in ai : j <= i],
                          MissingMeta, <<>>))
        ELSE IF MetaTruthy(metadata_dict)
             THEN WithComputedTotal(ReadCounts(metadata_dict))
             ELSE ZeroTokens

TokIdle ==
    /\ tok_pc = "idle"
    /\ tok_model_name = "gemini-2.0-flash"
    /\ tok_response = Response("other", NoMessage, MissingMeta, <<>>)
    /\ tok_result = ZeroTokens
    /\ tok_raised = FALSE

\* A configured model name and a response handed to the function.
TokInit ==
    /\ tok_pc = "call"
    /\ tok_model_name \in ModelNames
    /\ tok_response \in Responses
    /\ tok_result = ZeroTokens
    /\ tok_raised = FALSE

\* tokens = self._extract_token_usage(response)
CallExtractTokenUsage ==
    /\ tok_pc = "call"
    /\ tok_pc' = "done"
    /\ tok_result' = ExtractTokenUsage(tok_model_name, tok_response)
    /\ tok_raised' = FALSE
    /\ UNCHANGED <<tok_model_name, tok_response>>
    /\ UNCHANGED nonTokVars

TokNext == CallExtractTokenUsage

-----------------------------------------------------------------------------
(* POST /analysis: trigger_analysis, sanitize_filename,                    *)
(* _rename_file_for_archiving and the run directory chosen by              *)
(* run_cma_analysis_task.  Strings are sequences of characters.            *)

MaxRequests == 2
MaxClock == 2

Requests == 1..MaxRequests

\* Account names a client may post.
EmptyName == <<>>
SelectACompany ==
    <<"S", "e", "l", "e", "c", "t", " ", "a", " ",
      "c", "o", "m", "p", "a", "n", "y">>
AccountNames == {EmptyName, SelectACompany, <<"A", " ", "B">>,
                 <<"a", "-", "b">>, <<"\t">>}

\* File names a client may upload.
FileNames == {<<"c", ".", "x", "l", "s", "x">>, <<"C", ".", "X", "L", "S">>,
              <<"c", ".", "c", "s", "v">>, <<>>}

\* re.sub(r'[-, ]+', '_', input_string): every maximal run of hyphens,
\* commas and blanks becomes one underscore.
SubSeparatorChars == {"-", ",", " "}
RECURSIVE DropSeparators(_)
DropSeparators(s) ==
    IF s # <<>> /\ Head(s) \in SubSeparatorChars
    THEN DropSeparators(Tail(s)) ELSE s
RECURSIVE SubSeparatorRuns(_)
SubSeparatorRuns(s) ==
    IF s = <<>> THEN <<>>
    ELSE IF Head(s) \in SubSeparatorChars
    THEN <<"_">> \o SubSeparatorRuns(DropSeparators(s))
    ELSE <<Head(s)>> \o SubSeparatorRuns(Tail(s))

\* str.strip() with no argument: drop leading and trailing whitespace.
Whitespace == {" ", "\t"}
RECURSIVE StripWhitespace(_)
StripWhitespace(s) ==
    IF s # <<>> /\ s[Len(s)] \in Whitespace
    THEN StripWhitespace(SubSeq(s, 1, Len(s) - 1))
    ELSE IF s # <<>> /\ s[1] \in Whitespace THEN StripWhitespace(Tail(s))
    ELSE s

\* sanitize_filename(input_string)
sanitize_filename(input_string) ==
    IF input_string = <<>> THEN <<>>
    ELSE StripWhitespace(Lower(SubSeparatorRuns(input_string)))

\* str.endswith(suffix)
EndsWith(s, suffix) ==
    /\ Len(s) >= Len(suffix)
    /\ SubSeq(s, Len(s) - Len(suffix) + 1, Len(s)) = suffix

\* file.filename and file.filename.lower().endswith(('.xlsx', '.xls'))
ExcelFileName(filename) ==
    /\ filename # <<>>
    /\ \/ EndsWith(Lower(filename), <<".", "x", "l", "s", "x">>)
       \/ EndsWith(Lower(filename), <<".", "x", "l", "s">>)

\* Path.stem and Path.suffix: split at the last dot that is not the first
\* character of the name.
LastDot(name) ==
    LET dots == {i \in DOMAIN name : name[i] = "." /\ i > 1}
    IN  IF dots = {} THEN 0 ELSE CHOOSE i \in dots : \A j \in dots : j <= i
PathStem(name) ==
    IF LastDot(name) = 0 THEN name ELSE SubSeq(name, 1, LastDot(name) - 1)
PathSuffix(name) ==
    IF LastDot(name) = 0 THEN <<>> ELSE SubSeq(name, LastDot(name), Len(name))

\* strftime('%Y%m%d_%H%M%S') and str(counter): the clock counts whole
\* seconds, so two instants of the same second format to the same text.
DigitChar(n) ==
    CASE n = 0 -> "0" [] n = 1 -> "1" [] n = 2 -> "2" [] n = 3 -> "3"
      [] n = 4 -> "4" [] n = 5 -> "5" [] n = 6 -> "6" [] n = 7 -> "7"
      [] n = 8 -> "8" [] OTHER -> "9"
FormatTime(seconds) == <<DigitChar(seconds)>>

\* archive_name = f"{stem}_{formatted_time}{suffix}", or with _{counter}
ArchiveName(name, mtime, counter) ==
    PathStem(name) \o <<"_">> \o FormatTime(mtime)
      \o (IF counter = 0 THEN <<>> ELSE <<"_", DigitChar(counter)>>)
      \o PathSuffix(name)

FileExists(files, dir, name) ==
    \E f \in files : f.dir = dir /\ f.name = name

\* _rename_file_for_archiving(file_path): the files of the upload tree
\* afterwards.  The first archive name that does not exist is taken.
RenameFileForArchiving(files, dir, name) ==
    IF ~FileExists(files, dir, name) THEN files
    ELSE LET f == CHOOSE g \in files : g.dir = dir /\ g.name = name
             free == {c \in 0..Cardinality(files) :
                        ~FileExists(files, dir, ArchiveName(name, f.mtime, c))}
             counter == CHOOSE c \in free : \A d \in free : c <= d
         IN  (files \ {f})
               \cup {[f EXCEPT !.name = ArchiveName(name, f.mtime, counter)]}

\* output_path = Path(output_base_dir) / account_name / f"run_{timestamp}"
RunDirectory(account, seconds) ==
    [account |-> account, name |-> <<"r", "u", "n", "_">> \o FormatTime(seconds)]
NoPath == [account |-> <<>>, name |-> <<>>]

IdleRequest ==
    [pc |-> "idle", account_name |-> <<>>, filename |-> <<>>,
     safe_account |-> <<>>, status |-> 0, detail |-> "",
     output_path |-> NoPath, effects |-> {}]

ApiIdle ==
    /\ api_clock = 0
    /\ api_req = [r \in Requests |-> IdleRequest]
    /\ mcp_script_present = TRUE
    /\ upload_dirs = {}
    /\ upload_files = {}
    /\ run_dirs = {}
    /\ run_outputs = {}

\* The service is up with empty upload and output trees; the tool server
\* script is at its configured path or not.
ApiInit ==
    /\ api_clock = 0
    /\ api_req = [r \in Requests |-> IdleRequest]
    /\ mcp_script_present \in BOOLEAN
    /\ upload_dirs = {}
    /\ upload_files = {}
    /\ run_dirs = {}
    /\ run_outputs = {}

diskVars == <<upload_dirs, upload_files, run_dirs, run_outputs>>

\* One second passes.
Tick ==
    /\ api_clock < MaxClock
    /\ api_clock' = api_clock + 1
    /\ UNCHANGED <<api_req, mcp_script_present, diskVars>>
    /\ UNCHANGED nonApiVars

\* A client posts account_name and file; the handler runs up to
\* `await run_subprocess_test()`.
PostAnalysis(r) ==
    /\ api_req[r].pc = "idle"
    /\ \E account_name \in AccountNames, filename \in FileNames :
          api_req' = [api_req EXCEPT ![r].pc = "testing",
                                     ![r].account_name = account_name,
                                     ![r].filename = filename]
    /\ UNCHANGED <<api_clock, mcp_script_present, diskVars>>
    /\ UNCHANGED nonApiVars

\* run_subprocess_test() returns False or raises: 500.
SubprocessTestFails(r) ==
    /\ api_req[r].pc = "testing"
    /\ api_req' = [api_req EXCEPT ![r].pc = "done", ![r].status = 500,
                                  ![r].detail = "subprocess test"]
    /\ UNCHANGED <<api_clock, mcp_script_present, diskVars>>
    /\ UNCHANGED nonApiVars

\* The handler runs from the end of the subprocess test to its next await
\* without yielding the event loop; the four actions below are the four
\* ways that stretch of code ends.

\* if not safe_account or safe_account == "invalid_input": 400
RejectAccountName(r) ==
    /\ api_req[r].pc = "testing"
    /\ LET safe_account == sanitize_filename(api_req[r].account_name)
       IN  /\ safe_account = <<>>
           /\ api_req' = [api_req EXCEPT ![r].pc = "done",
                                         ![r].safe_account = safe_account,
                                         ![r].status = 400,
                                         ![r].detail = "account name"]
    /\ UNCHANGED <<api_clock, mcp_script_present, diskVars>>
    /\ UNCHANGED nonApiVars

\* if not file.filename or not file.filename.lower().endswith(...): 400
RejectFileType(r) ==
    /\ api_req[r].pc = "testing"
    /\ LET safe_account == sanitize_filename(api_req[r].account_name)
       IN  /\ safe_account # <<>>
           /\ ~ExcelFileName(api_req[r].filename)
           /\ api_req' = [api_req EXCEPT ![r].pc = "done",
                                         ![r].safe_account = safe_account,
                                         ![r].status = 400,
                                         ![r].detail = "file type"]
    /\ UNCHANGED <<api_clock, mcp_script_present, diskVars>>
    /\ UNCHANGED nonApiVars

\* if not Path(mcp_server_path).is_file(): 500
RejectMissingScript(r) ==
    /\ api_req[r].pc = "testing"
    /\ LET safe_account == sanitize_filename(api_req[r].account_name)
       IN  /\ safe_account # <<>>
           /\ ExcelFileName(api_req[r].filename)
           /\ ~mcp_script_present
           /\ api_req' = [api_req EXCEPT ![r].pc = "done",
                                         ![r].safe_account = safe_account,
                                         ![r].status = 500,
                                         ![r].detail = "script not found"]
    /\ UNCHANGED <<api_clock, mcp_script_present, diskVars>>
    /\ UNCHANGED nonApiVars

\* The accepted request: the account's upload directory is made, an
\* existing file of the same name is archived, the upload is written, and
\* run_cma_analysis_task runs up to its first await: it stamps the run
\* directory with the current second and CMAAnalyzer.__init__ makes it
\* (mkdir(parents=True, exist_ok=True)).  Path.rename may raise OSError
\* (the file is held open by the run that reads it, the directory is not
\* writable): _rename_file_for_archiving logs it and returns, and the
\* handler goes on to open(file_path, "wb"), which truncates the file.
SaveUploadAndStart(r) ==
    /\ api_req[r].pc = "testing"
    /\ \E rename_ok \in BOOLEAN :
       LET safe_account == sanitize_filename(api_req[r].account_name)
           filename == api_req[r].filename
           archived == IF rename_ok
                       THEN RenameFileForArchiving(upload_files, safe_account,
                                                   filename)
                       ELSE upload_files
           output_path == RunDirectory(safe_account, api_clock)
       IN  /\ safe_account # <<>>
           /\ ExcelFileName(filename)
           /\ mcp_script_present
           /\ rename_ok \/ FileExists(upload_files, safe_account, filename)
           /\ upload_dirs' = upload_dirs \cup {safe_account}
           /\ upload_files' =
                 {f \in archived :
                     ~(f.dir = safe_account /\ f.name = filename)}
                 \cup {[dir |-> safe_account, name |-> filename,
                        mtime |-> api_clock, content |-> r]}
           /\ run_dirs' = run_dirs \cup {[path |-> output_path, run |-> r]}
           /\ api_req' = [api_req EXCEPT
                 ![r].pc = "running",
                 ![r].safe_account = safe_account,
                 ![r].output_path = output_path,
                 ![r].effects =
                     {"mkdir", "write", "start"} \cup
                     (IF archived # upload_files THEN {"rename"} ELSE {})]
    /\ UNCHANGED <<api_clock, mcp_script_present, run_outputs>>
    /\ UNCHANGED nonApiVars

\* The run proceeds: the audit database, the extracted markdown, the
\* reports and the alerts are written below self.output_path.
RunAnalysis(r) ==
    /\ api_req[r].pc = "running"
    /\ run_outputs' = run_outputs \cup
          {[path |-> api_req[r].output_path, run |-> r]}
    /\ api_req' = [api_req EXCEPT ![r].pc = "analysed"]
    /\ UNCHANGED <<api_clock, mcp_script_present, upload_dirs, upload_files,
                   run_dirs>>
    /\ UNCHANGED nonApiVars

\* run_cma_analysis_task raises: 500.
TaskRaises(r) ==
    /\ api_req[r].pc \in {"running", "analysed"}
    /\ api_req' = [api_req EXCEPT ![r].pc = "done", ![r].status = 500,
                                  ![r].detail = "task failed"]
    /\ UNCHANGED <<api_clock, mcp_script_present, diskVars>>
    /\ UNCHANGED nonApiVars

\* run_cma_analysis_task returns the final state: JSONResponse (200).
AnalysisResponse(r) ==
    /\ api_req[r].pc = "analysed"
    /\ api_req' = [api_req EXCEPT ![r].pc = "done", ![r].status = 200,
                                  ![r].detail = "success"]
    /\ UNCHANGED <<api_clock, mcp_script_present, diskVars>>
    /\ UNCHANGED nonApiVars

ApiNext ==
    \/ Tick
    \/ \E r \in Requests :
          \/ PostAnalysis(r)
          \/ SubprocessTestFails(r)
          \/ RejectAccountName(r)
          \/ RejectFileType(r)
          \/ RejectMissingScript(r)
          \/ SaveUploadAndStart(r)
          \/ RunAnalysis(r)
          \/ TaskRaises(r)
          \/ AnalysisResponse(r)
-----------------------------------------------------------------------------
(* AlertTool: attribute_rules and classify_financial_attributes.           *)
(* A value is a float counted in thousandths, NaN, or not a number at all. *)

ValueMargin == 1

Number(milli) == [k |-> "num", milli |-> milli]
NaN == [k |-> "nan", milli |-> 0]
Text == [k |-> "text", milli |-> 0]

\* The lambdas of the rule table, as data: a lower and an upper comparison
\* ("lt" strict, "le" inclusive, "none" absent), bounds in thousandths.
Condition(lo_kind, lo, hi_kind, hi) ==
    [lo_kind |-> lo_kind, lo |-> lo, hi_kind |-> hi_kind, hi |-> hi]
Lt(hi) == Condition("none", 0, "lt", hi)                \* x < hi
Gt(lo) == Condition("lt", lo, "none", 0)                \* x > lo
LeLt(lo, hi) == Condition("le", lo, "lt", hi)           \* lo <= x < hi
LeLe(lo, hi) == Condition("le", lo, "le", hi)           \* lo <= x <= hi
LtLe(lo, hi) == Condition("lt", lo, "le", hi)           \* lo < x <= hi

Rule(type, high, medium, low) ==
    [type |-> type,
     thresholds |-> <<[rating |-> "High", condition |-> high],
                      [rating |-> "Medium", condition |-> medium],
                      [rating |-> "Low", condition |-> low]>>]

\* attribute_rules; the thresholds of a rule keep their dict order.
attribute_rules ==
    [a \in {"current ratio"} |->
        Rule("R", Lt(1000), LeLt(1000, 1200), LeLe(1200, 1330))]
 @@ [a \in {"net sales"} |->
        Rule("Dev", Gt(20000), LeLe(15000, 20000), LeLt(10000, 15000))]
 @@ [a \in {"net cash accrual to net sales"} |->
        Rule("Dev", Gt(200), LtLe(100, 200), LtLe(50, 100))]
 @@ [a \in {"net sales to total assets ratio"} |->
        Rule("R", Lt(700), LtLe(700, 900), LtLe(900, 1000))]
 @@ [a \in {"roe %"} |->
        Rule("P", Lt(5000), LeLt(5000, 7000), LeLe(7000, 8000))]
 @@ [a \in {"roce %"} |->
        Rule("P", Lt(12000), LeLt(12000, 14000), LeLe(10000, 14000))]
 @@ [a \in {"ronw %"} |->
        Rule("P", Lt(10000), LeLt(10000, 14000), LeLe(14000, 15000))]
 @@ [a \in {"quick ratio"} |->
        Rule("R", Lt(1000), LeLt(1000, 1250), LeLe(1250, 1330))]
 @@ [a \in {"debt to equity ratio"} |->
        Rule("R", Gt(3000), LeLe(2000, 2500), LeLt(1500, 2000))]
 @@ [a \in {"tol/tnw ratio"} |->
        Rule("R", Gt(4000), LeLe(2500, 3000), LeLt(1500, 2500))]
 @@ [a \in {"debt service coverage ratio (dscr)"} |->
        Rule("R", Lt(1000), LeLe(1000, 1250), LeLt(1250, 1500))]
 @@ [a \in {"adjusted tnw"} |->
        Rule("Dev", Gt(10000), LeLe(10000, 7000), LeLe(7000, 5000))]
 @@ [a \in {"interest coverage ratio (icr)"} |->
        Rule("Dev", Lt(1500), LeLe(1500, 1750), LeLe(1750, 2000))]
 @@ [a \in {"total debt to ebitda"} |->
        Rule("R", Gt(2000), LeLe(2000, 3000), LeLe(3000, 4000))]
 @@ [a \in {"unhedged foreign currency exposure"} |->
        Rule("Dev", Gt(30000), LeLe(20000, 30000), LeLe(10000, 20000))]
 @@ [a \in {"net profit margin"} |->
        Rule("Dev", Gt(20000), LeLe(10000, 20000), LeLe(5000, 10000))]
 @@ [a \in {"fixed assets coverage ratio (facr)"} |->
        Rule("R", Lt(1500), LeLe(1500, 1750), LtLe(1750, 2000))]
 @@ [a \in {"assets coverage ratio (acr)"} |->
        Rule("R", Lt(1500), LeLe(1500, 2000), LtLe(2000, 2500))]

\* condition(value) for a float: every comparison with NaN is False.
HoldsExclusive(condition, value) ==
    /\ value.k = "num"
    /\ condition.lo_kind # "none" => condition.lo < value.milli
    /\ condition.hi_kind # "none" => value.milli < condition.hi
Holds(condition, value) ==
    /\ value.k = "num"
    /\ condition.lo_kind = "lt" => condition.lo < value.milli
    /\ condition.lo_kind = "le" => condition.lo <= value.milli
    /\ condition.hi_kind = "lt" => value.milli < condition.hi
    /\ condition.hi_kind = "le" => value.milli <= condition.hi

\* round(value, 2), in hundredths.  A value half-way between two hundredths
\* goes to the neighbour its binary representation is nearer to: either.
Round2(value) ==
    IF value.k # "num" THEN {value}
    ELSE LET floor == value.milli \div 10
             rest == value.milli % 10
         IN  {Number(10 * h) :
                 h \in {g \in {floor, floor + 1} :
                          \/ rest < 5 /\ g = floor
                          \/ rest > 5 /\ g = floor + 1
                          \/ rest = 5}}

\* str(row["Attribute"]).lower().strip() on the column names in use.
LowerStrip(column) ==
    CASE column = "Current Ratio" -> "current ratio"
      [] column = " Current Ratio " -> "current ratio"
      [] column = "Debt to Equity Ratio" -> "debt to equity ratio"
      [] column = "TOL/TNW Ratio" -> "tol/tnw ratio"
      [] column = "Debt Service Coverage Ratio (DSCR)"
            -> "debt service coverage ratio (dscr)"
      [] column = "Adjusted TNW" -> "adjusted tnw"
      [] column = "Net Sales" -> "net sales"
      [] column = "Total Debt to EBITDA" -> "total debt to ebitda"
      [] column = "ROE %" -> "roe %"
      [] column = "Quick Ratio" -> "quick ratio"
      [] column = "Interest Coverage Ratio (ICR)"
            -> "interest coverage ratio (icr)"
      [] column = "Net Cash Accrual to Net Sales"
            -> "net cash accrual to net sales"
      [] column = "Gross Margin" -> "gross margin"
      [] OTHER -> column

\* The columns create_alerts_data builds, a padded and an unknown column,
\* and every key of the rule table.
AlertColumns ==
    {"Current Ratio", "Debt to Equity Ratio", "TOL/TNW Ratio",
     "Debt Service Coverage Ratio (DSCR)", "Adjusted TNW", "Net Sales",
     "Total Debt to EBITDA", "ROE %", "Quick Ratio",
     "Interest Coverage Ratio (ICR)", "Net Cash Accrual to Net Sales",
     " Current Ratio ", "Gross Margin"} \cup DOMAIN attribute_rules

\* The values tried: around every bound of the table, far below and far
\* above all of them, one half-way between two hundredths, NaN (a missing
\* value in a float column), and text.
TableBounds ==
    UNION {UNION {{attribute_rules[a].thresholds[i].condition.lo,
                   attribute_rules[a].thresholds[i].condition.hi} :
                      i \in 1..3} : a \in DOMAIN attribute_rules}
AlertValues ==
    {Number(b + d) : b \in TableBounds, d \in (-ValueMargin)..ValueMargin}
      \cup {Number(-100000), Number(1335), Number(100000), NaN, Text}

\* The index of the first threshold of the rule whose condition holds, 0
\* when none does (the for loop of evaluate_attribute).
FirstMatch(rule, value) ==
    LET hits == {i \in DOMAIN rule.thresholds :
                    Holds(rule.thresholds[i].condition, value)}
    IN  IF hits = {} THEN 0 ELSE CHOOSE i \in hits : \A j \in hits : i <= j

\* The message texts, kept as their parts: the level that opens the
\* message, the wording chosen by the rule's type, the attribute and the
\* rounded value.
AlertMessage(level, form, attribute, value) ==
    [level |-> level, form |-> form, attribute |-> attribute, value |-> value]

\* evaluate_attribute(attribute, value), with the outcome of round(value, 2)
evaluate_attribute(attribute, value, rounded) ==
    IF attribute \notin DOMAIN attribute_rules
    THEN AlertMessage("No rating rule defined", "none", attribute, NaN)
    ELSE LET rule == attribute_rules[attribute]
             i == FirstMatch(rule, value)
         IN  IF i = 0
             THEN AlertMessage("Unclassified", "none", attribute, rounded)
             ELSE AlertMessage(rule.thresholds[i].rating, rule.type,
                               attribute, rounded)

\* A comparison of a rule's lambda with a value that is not a number
\* raises TypeError; it is reached only when the attribute has a rule.
EvaluateRaises(attribute, value) ==
    attribute \in DOMAIN attribute_rules /\ value.k = "text"

AlertIdle ==
    /\ alert_pc = "idle"
    /\ alert_column = "Current Ratio"
    /\ alert_value = NaN
    /\ alert_messages = <<>>
    /\ alert_raised = FALSE

\* A one-row frame with one column is handed to the classifier.
AlertInit ==
    /\ alert_pc = "call"
    /\ alert_column \in AlertColumns
    /\ alert_value \in AlertValues
    /\ alert_messages = <<>>
    /\ alert_raised = FALSE

\* classify_financial_attributes(df, year): one message per column.
ClassifyFinancialAttributes ==
    /\ alert_pc = "call"
    /\ alert_pc' = "done"
    /\ LET attribute == LowerStrip(alert_column)
       IN  IF EvaluateRaises(attribute, alert_value)
           THEN /\ alert_raised' = TRUE
                /\ alert_messages' = <<>>
           ELSE /\ alert_raised' = FALSE
                /\ \E rounded \in Round2(alert_value) :
                      alert_messages' =
                          <<evaluate_attribute(attribute, alert_value, rounded)>>
    /\ UNCHANGED <<alert_column, alert_value>>
    /\ UNCHANGED nonAlertVars

AlertNext == ClassifyFinancialAttributes

-----------------------------------------------------------------------------
(* Reading a run back: find_latest_run_dir, GET /alerts/{account_name},    *)
(* GET /reports/{account_name}.                                            *)

MaxEntries == 3
MaxAlertRows == 2

\* The characters in use, in code point order; str comparison goes by it.
CharOrder ==
    <<" ", "&", "0", "1", "2", "3", "4", "5", "6", "7", "8", "9",
      "A", "B", "C", "F", "P", "R", "S", "_",
      "a", "b", "c", "e", "f", "i", "k", "l", "m", "n", "o", "p", "r", "s",
      "t", "u", "v">>
CodePoint(c) == CHOOSE i \in DOMAIN CharOrder : CharOrder[i] = c

\* a < b for two str values.
RECURSIVE StrLess(_, _)
StrLess(a, b) ==
    IF b = <<>> THEN FALSE
    ELSE IF a = <<>> THEN TRUE
    ELSE IF Head(a) = Head(b) THEN StrLess(Tail(a), Tail(b))
    ELSE CodePoint(Head(a)) < CodePoint(Head(b))

\* run_dir_pattern = re.compile(r'^run_\d{8}_\d{6}$')
DecimalDigits == {"0", "1", "2", "3", "4", "5", "6", "7", "8", "9"}
RunDirPatternMatch(name) ==
    /\ Len(name) = 19
    /\ SubSeq(name, 1, 4) = <<"r", "u", "n", "_">>
    /\ \A i \in 5..12 : name[i] \in DecimalDigits
    /\ name[13] = "_"
    /\ \A i \in 14..19 : name[i] \in DecimalDigits

\* Entries that may lie below an account's output directory.
RunName(date, time) == <<"r", "u", "n", "_">> \o date \o <<"_">> \o time
Entry(name, is_dir) == [name |-> name, is_dir |-> is_dir]
EntryChoices ==
    {Entry(RunName(<<"2", "0", "2", "5", "0", "1", "0", "9">>,
                   <<"1", "2", "0", "0", "0", "0">>), TRUE),
     Entry(RunName(<<"2", "0", "2", "5", "0", "1", "1", "0">>,
                   <<"0", "9", "3", "0", "0", "0">>), TRUE),
     Entry(RunName(<<"2", "0", "2", "4", "1", "2", "3", "1">>,
                   <<"2", "3", "5", "9", "5", "9">>), TRUE),
     Entry(RunName(<<"2", "0", "2", "5", "0", "2", "0", "1">>,
                   <<"0", "0", "0", "0", "0", "0">>), FALSE),
     Entry(RunName(<<"2", "0", "2", "5", "0", "3", "0", "1">>,
                   <<"1">>), TRUE),
     Entry(<<"r", "u", "n", "s">>, TRUE),
     Entry(RunName(<<"2", "0", "2", "5", "0", "4", "0", "1">>,
                   <<"0", "0", "0", "0", "0", "0", "_", "b", "a", "k">>), TRUE)}

\* run_dirs.sort(key=lambda x: x.name): the names in ascending order.
RECURSIVE SortNames(_)
SortNames(names) ==
    IF names = {} THEN <<>>
    ELSE LET least == CHOOSE n \in names :
                         \A m \in names \ {n} : StrLess(n, m)
         IN  <<least>> \o SortNames(names \ {least})

\* find_latest_run_dir(account_base_dir): the directory found, <<>> for
\* None.  is_account_dir: account_base_dir.is_dir().  FirstRunDir takes
\* run_dirs[0] for run_dirs[-1].
FirstRunDir(is_account_dir, entries) ==
    IF ~is_account_dir THEN <<>>
    ELSE LET sorted_dirs == SortNames({e.name : e \in
                               {d \in entries : d.is_dir
                                   /\ RunDirPatternMatch(d.name)}})
         IN  IF sorted_dirs = <<>> THEN <<>> ELSE sorted_dirs[1]
find_latest_run_dir(is_account_dir, entries) ==
    IF ~is_account_dir THEN <<>>
    ELSE LET sorted_dirs == SortNames({e.name : e \in
                               {d \in entries : d.is_dir
                                   /\ RunDirPatternMatch(d.name)}})
         IN  IF sorted_dirs = <<>> THEN <<>>
             ELSE sorted_dirs[Len(sorted_dirs)]

\* Text of the alert table, as tokens: a word (a run of text without two
\* adjacent blanks), a number, one blank, or a gap of two or more blanks.
Word(text) == [kind |-> "word", text |-> text, value |-> NaN]
ValueText(value) == [kind |-> "value", text |-> "", value |-> value]
Blank == [kind |-> "blank", text |-> "", value |-> NaN]
Gap == [kind |-> "gap", text |-> "", value |-> NaN]

\* ' '.join(words)
RECURSIVE JoinBlank(_)
JoinBlank(words) ==
    IF Len(words) <= 1 THEN words
    ELSE <<Head(words), Blank>> \o JoinBlank(Tail(words))

FinancialYear == "FY2025-26"

\* The f-strings of evaluate_attribute.
MessageText(m) ==
    JoinBlank(
        IF m.level = "No rating rule defined"
        THEN <<Word("No rating rule defined for"), Word(m.attribute)>>
        ELSE IF m.level = "Unclassified"
        THEN <<Word("Unclassified"), Word("Alert:"), Word(m.attribute),
               Word("with value"), ValueText(m.value),
               Word("does not match any defined range.")>>
        ELSE IF m.form = "Dev"
        THEN <<Word(m.level), Word("Alert:"), Word("Deviation in"),
               Word(m.attribute), Word("is"), ValueText(m.value), Word("%"),
               Word("in last audited"), Word(FinancialYear)>>
        ELSE IF m.form = "P"
        THEN <<Word(m.level), Word("Alert:"), Word(m.attribute), Word("is"),
               ValueText(m.value), Word("%"), Word("in last audited"),
               Word(FinancialYear)>>
        ELSE <<Word(m.level), Word("Alert:"), Word(m.attribute), Word("is"),
               ValueText(m.value), Word("in last audited"),
               Word(FinancialYear)>>)

\* One row of the frame classify_financial_attributes returns.
AlertRow(column, value) ==
    [Attribute |-> column, Value |-> value,
     Message |-> MessageText(evaluate_attribute(
                     LowerStrip(column), value,
                     CHOOSE rounded \in Round2(value) : TRUE))]
AlertRowChoices ==
    {AlertRow("Current Ratio", Number(500)),
     AlertRow("Current Ratio", Number(5000)),
     AlertRow("Net Sales", NaN),
     AlertRow("ROE %", Number(7500))}
AlertFrames ==
    UNION {[1..n -> AlertRowChoices] : n \in 1..MaxAlertRows}

\* DataFrame.to_string(): a header line and one line per row, the row
\* label first; columns are padded apart by two or more blanks.
ToStringLine(label, row) ==
    <<Word(label), Gap, Word(row.Attribute), Gap, ValueText(row.Value), Gap>>
      \o row.Message
ToStringHeader ==
    <<Gap, Word("Attribute"), Gap, Word("Value"), Gap,
      Word("Alert"), Blank, Word("Message")>>
FrameToString(frame) ==
    <<ToStringHeader>> \o
       [i \in DOMAIN frame |-> ToStringLine(DigitChar(i - 1), frame[i])]

\* pat.split(line.strip()) with sep=r'\s{2,}': the fields of a line.
RECURSIVE LineStrip(_)
LineStrip(line) ==
    IF line # <<>> /\ Head(line).kind \in {"gap", "blank"}
    THEN LineStrip(Tail(line))
    ELSE IF line # <<>> /\ line[Len(line)].kind \in {"gap", "blank"}
    THEN LineStrip(SubSeq(line, 1, Len(line) - 1))
    ELSE line
RECURSIVE SplitFields(_)
SplitFields(line) ==
    LET gaps == {i \in DOMAIN line : line[i].kind = "gap"}
    IN  IF gaps = {} THEN <<line>>
        ELSE LET g == CHOOSE i \in gaps : \A j \in gaps : i <= j
             IN  <<SubSeq(line, 1, g - 1)>>
                   \o SplitFields(SubSeq(line, g + 1, Len(line)))

\* pd.read_csv(..., sep=r'\s{2,}', engine='python'): the header names the
\* columns; rows with one field more than the header carry the row label
\* first.  The result is the 'Alert Message' column, or "error" when the
\* column is missing or a row has the wrong number of fields.
AlertMessageHeader == <<Word("Alert"), Blank, Word("Message")>>
ReadAlertMessages(lines) ==
    LET header == SplitFields(LineStrip(lines[1]))
        rows == [i \in 1..(Len(lines) - 1) |->
                    SplitFields(LineStrip(lines[i + 1]))]
        shift == IF rows # <<>> /\ Len(rows[1]) = Len(header) + 1
                 THEN 1 ELSE 0
        cols == {c \in DOMAIN header : header[c] = AlertMessageHeader}
    IN  IF cols = {} \/ \E i \in DOMAIN rows :
                           Len(rows[i]) # Len(header) + shift
        THEN [ok |-> FALSE, column |-> <<>>]
        ELSE [ok |-> TRUE,
              column |-> [i \in DOMAIN rows |->
                             rows[i][shift + CHOOSE c \in cols : TRUE]]]

\* str.contains('Unclassified Alert')
ContainsUnclassifiedAlert(message) ==
    \E i \in DOMAIN message :
        /\ i + 2 <= Len(message)
        /\ message[i] = Word("Unclassified")
        /\ message[i + 1] = Blank
        /\ message[i + 2] = Word("Alert:")

KeepEveryRow(column) == column

\* df[~df['Alert Message'].str.contains(...)]['Alert Message'].tolist()
RECURSIVE DropUnclassified(_)
DropUnclassified(column) ==
    IF column = <<>> THEN <<>>
    ELSE IF ContainsUnclassifiedAlert(Head(column))
    THEN DropUnclassified(Tail(column))
    ELSE <<Head(column)>> \o DropUnclassified(Tail(column))

\* parse_and_filter_alerts(file_path, file_encoding)
parse_and_filter_alerts(lines) ==
    LET read == ReadAlertMessages(lines)
    IN  IF read.ok
        THEN [ok |-> TRUE, alerts |-> DropUnclassified(read.column)]
        ELSE [ok |-> FALSE, alerts |-> <<>>]

\* The account whose output directory may exist, and the names asked for.
OutputAccount == <<"a", "_", "b">>
GetAccountNames == {<<>>, <<"a", "-", "b">>, <<"c">>}

NoGetResponse == [status |-> 0, alerts |-> <<>>, reports |-> <<>>]

GetIdle ==
    /\ get_pc = "idle"
    /\ get_route = "alerts"
    /\ get_account_name = <<>>
    /\ out_account_dir = FALSE
    /\ out_entries = {}
    /\ out_files_dir = <<>>
    /\ out_alert_file = <<>>
    /\ out_report_files = {}
    /\ out_cumulative = FALSE
    /\ get_latest = <<>>
    /\ get_response = NoGetResponse

\* An output tree and a request.  The account directory holds at most
\* MaxEntries entries; one of its run directories (any, or none) holds the
\* files of a run.
\* The stems of the *.md files a run's reports directory may hold; the
\* last is Cumulative_Report.md.
MaxReports == 3
CumulativeStem == <<"C", "u", "m", "u", "l", "a", "t", "i", "v", "e", "_",
                   "R", "e", "p", "o", "r", "t">>
ReportStems ==
    {<<"b", "s">>, <<"b", "_", "s">>, <<"f", "_", "f">>, <<"p", "_", "&", "_", "l">>,
     <<"a", "_", "b", "2">>, CumulativeStem}

GetInit ==
    /\ get_pc = "call"
    /\ get_account_name \in GetAccountNames
    /\ out_account_dir \in BOOLEAN
    /\ out_entries \in {s \in SUBSET EntryChoices : Cardinality(s) <= MaxEntries}
    /\ out_account_dir = FALSE => out_entries = {}
    /\ out_files_dir \in {<<>>} \cup
          {e.name : e \in {d \in out_entries :
                              d.is_dir /\ RunDirPatternMatch(d.name)}}
    /\ \/ /\ get_route = "alerts"
          /\ out_alert_file \in
                {<<>>} \cup {FrameToString(f) : f \in AlertFrames}
          /\ out_report_files = {}
          /\ out_cumulative = FALSE
       \/ /\ get_route = "reports"
          /\ out_alert_file = <<>>
          /\ out_report_files \in
                {s \in SUBSET ReportStems : Cardinality(s) <= MaxReports}
          /\ out_cumulative \in BOOLEAN
    /\ out_files_dir = <<>> =>
          out_alert_file = <<>> /\ out_report_files = {} /\ ~out_cumulative
    /\ get_latest = <<>>
    /\ get_response = NoGetResponse

outVars == <<out_account_dir, out_entries, out_files_dir, out_alert_file,
             out_report_files, out_cumulative>>

\* GET /alerts/{account_name}
GetAlerts ==
    /\ get_pc = "call"
    /\ get_route = "alerts"
    /\ get_pc' = "done"
    /\ LET safe_account == sanitize_filename(get_account_name)
           is_dir == out_account_dir /\ safe_account = OutputAccount
           latest_run_dir == find_latest_run_dir(is_dir, out_entries)
           is_file == /\ out_files_dir = latest_run_dir
                      /\ out_alert_file # <<>>
           parsed == parse_and_filter_alerts(out_alert_file)
       IN  /\ get_latest' = IF safe_account = <<>> THEN <<>>
                            ELSE latest_run_dir
           /\ get_response' =
                IF safe_account = <<>>
                THEN [NoGetResponse EXCEPT !.status = 400]
                ELSE IF ~is_dir \/ latest_run_dir = <<>>
                THEN [NoGetResponse EXCEPT !.status = 404]
                ELSE IF ~is_file
                THEN [NoGetResponse EXCEPT !.status = 200]
                ELSE IF parsed.ok
                THEN [NoGetResponse EXCEPT !.status = 200,
                                           !.alerts = parsed.alerts]
                ELSE [NoGetResponse EXCEPT !.status = 500]
    /\ UNCHANGED <<get_route, get_account_name, outVars>>
    /\ UNCHANGED nonGetVars

\* str.upper() of one character.
UpperChar(c) ==
    CASE c = "a" -> "A" [] c = "b" -> "B" [] c = "c" -> "C" [] c = "f" -> "F"
      [] c = "p" -> "P" [] c = "r" -> "R" [] c = "s" -> "S" [] c = "l" -> "L"
      [] OTHER -> c

Cased(c) == LowerChar(c) # c \/ UpperChar(c) # c

\* base_name.replace('_', ' ').title(): a cased character is upper-cased
\* after an uncased one (or at the start) and lower-cased after a cased
\* one.
ReportName(base_name) ==
    LET spaced == [i \in DOMAIN base_name |->
                      IF base_name[i] = "_" THEN " " ELSE base_name[i]]
    IN  [i \in DOMAIN spaced |->
            IF i = 1 \/ ~Cased(spaced[i - 1]) THEN UpperChar(spaced[i])
            ELSE LowerChar(spaced[i])]

Report(report_name, type) == [report_name |-> report_name, type |-> type]
CumulativeReportName == <<"C", "u", "m", "u", "l", "a", "t", "i", "v", "e", " ",
                         "R", "e", "p", "o", "r", "t">>

\* The key of the final sort, (x['type'] != 'cumulative', x['report_name']),
\* and the order of two keys: False sorts before True.
SortKey(x) == <<x.type # "cumulative", x.report_name>>
KeyLess(a, b) ==
    \/ ~a[1] /\ b[1]
    \/ a[1] = b[1] /\ StrLess(a[2], b[2])

\* list.sort(key=...): stable, ascending.
RECURSIVE SortReports(_)
SortReports(reports) ==
    IF reports = <<>> THEN <<>>
    ELSE LET rest == SortReports(Tail(reports))
             x == Head(reports)
             before == SelectSeq(rest, LAMBDA y : KeyLess(SortKey(y), SortKey(x)))
             after == SelectSeq(rest, LAMBDA y : ~KeyLess(SortKey(y), SortKey(x)))
         IN  before \o <<x>> \o after

\* The orders in which glob may yield a set of files.
GlobOrders(files) ==
    {f \in [1..Cardinality(files) -> files] :
        \A i, j \in DOMAIN f : i # j => f[i] # f[j]}

\* GET /reports/{account_name}
GetReports ==
    /\ get_pc = "call"
    /\ get_route = "reports"
    /\ get_pc' = "done"
    /\ LET safe_account == sanitize_filename(get_account_name)
           is_dir == out_account_dir /\ safe_account = OutputAccount
           latest_run_dir == find_latest_run_dir(is_dir, out_entries)
           in_latest == out_files_dir = latest_run_dir
           found == IF in_latest THEN out_report_files \ {CumulativeStem}
                    ELSE {}
       IN  /\ get_latest' = IF safe_account = <<>> THEN <<>>
                            ELSE latest_run_dir
           /\ \E globbed \in GlobOrders(found) :
              \E unreadable \in {{}} \cup {{b} : b \in found} :
              \E cumulative_read \in BOOLEAN :
                LET read == SelectSeq(globbed, LAMBDA b : b \notin unreadable)
                    individual == [i \in DOMAIN read |->
                                      Report(ReportName(read[i]), "individual")]
                    report_files_content ==
                        IF in_latest /\ out_cumulative /\ cumulative_read
                        THEN Append(individual,
                                    Report(CumulativeReportName, "cumulative"))
                        ELSE individual
                IN  get_response' =
                      IF safe_account = <<>>
                      THEN [NoGetResponse EXCEPT !.status = 400]
                      ELSE IF ~is_dir \/ latest_run_dir = <<>>
                              \/ report_files_content = <<>>
                      THEN [NoGetResponse EXCEPT !.status = 404]
                      ELSE [NoGetResponse EXCEPT
                               !.status = 200,
                               !.reports = SortReports(report_files_content)]
    /\ UNCHANGED <<get_route, get_account_name, outVars>>
    /\ UNCHANGED nonGetVars

GetNext == GetAlerts \/ GetReports

-----------------------------------------------------------------------------
(* GET /recommendations/{account_name}: parse_db_date,                     *)
(* generate_recommendations, get_recommendations_for_account.  Also the    *)
(* target date of FinancialDataExtractor.  Dates are calendar dates.       *)

DayMargin == 1

Date(y, m, d) == [y |-> y, m |-> m, d |-> d]
NoDate == Date(0, 0, 0)

IsLeapYear(y) == (y % 4 = 0 /\ y % 100 # 0) \/ y % 400 = 0
DaysInMonth(y, m) ==
    IF m = 2 THEN (IF IsLeapYear(y) THEN 29 ELSE 28)
    ELSE IF m \in {4, 6, 9, 11} THEN 30 ELSE 31
ValidDate(date) ==
    /\ date.m \in 1..12
    /\ date.d \in 1..DaysInMonth(date.y, date.m)

\* a < b and a <= b for two date objects.
DateLess(a, b) ==
    \/ a.y < b.y
    \/ a.y = b.y /\ a.m < b.m
    \/ a.y = b.y /\ a.m = b.m /\ a.d < b.d
DateLeq(a, b) == a = b \/ DateLess(a, b)

\* date + relativedelta(months=n), n of either sign: the month moves, the
\* day is cut to the last day of the month reached.  relativedelta(years=k)
\* is relativedelta(months=12k) on a date.
AddMonths(date, n) ==
    LET total == date.y * 12 + (date.m - 1) + n
        y == total \div 12
        m == (total % 12) + 1
    IN  Date(y, m, IF date.d > DaysInMonth(y, m) THEN DaysInMonth(y, m)
                   ELSE date.d)

\* date + timedelta(days=n), n of either sign.
RECURSIVE AddDays(_, _)
AddDays(date, n) ==
    IF n = 0 THEN date
    ELSE IF n > 0
    THEN AddDays(IF date.d < DaysInMonth(date.y, date.m)
                 THEN Date(date.y, date.m, date.d + 1)
                 ELSE IF date.m < 12 THEN Date(date.y, date.m + 1, 1)
                 ELSE Date(date.y + 1, 1, 1),
                 n - 1)
    ELSE AddDays(IF date.d > 1 THEN Date(date.y, date.m, date.d - 1)
                 ELSE IF date.m > 1
                 THEN Date(date.y, date.m - 1,
                           DaysInMonth(date.y, date.m - 1))
                 ELSE Date(date.y - 1, 12, 31),
                 n + 1)

\* A date cell of loan_data, by the way it was written: NULL, text that is
\* no date, or the numbers of a date in one of the layouts
\* "Y-m-d", "m/d/yy", "d/m/Y", "m/d/Y" (y, m, d as meant by the writer).
Cell(style, y, m, d) == [style |-> style, y |-> y, m |-> m, d |-> d]
NullCell == Cell("null", 0, 0, 0)
TextCell == Cell("text", 0, 0, 0)
IsoCell(date) == Cell("Y-m-d", date.y, date.m, date.d)

\* datetime.strptime(...) with '%y': 00..68 is 2000..2068, 69..99 is 19xx.
TwoDigitYear(yy) == IF yy <= 68 THEN 2000 + yy ELSE 1900 + yy

\* parse_db_date(date_str): the formats are tried in the order
\* '%m/%d/%y', '%Y-%m-%d', '%d/%m/%Y', '%d-%b-%Y', '%m/%d/%Y'; a text
\* written month first with a four-digit year is read day first whenever
\* that gives a date.
parse_db_date(cell) ==
    IF cell.style \in {"null", "text"} THEN NoDate
    ELSE IF cell.style = "m/d/yy"
    THEN (IF ValidDate(Date(TwoDigitYear(cell.y % 100), cell.m, cell.d))
          THEN Date(TwoDigitYear(cell.y % 100), cell.m, cell.d) ELSE NoDate)
    ELSE IF cell.style = "m/d/Y"
    THEN (IF ValidDate(Date(cell.y, cell.d, cell.m))
          THEN Date(cell.y, cell.d, cell.m)
          ELSE IF ValidDate(Date(cell.y, cell.m, cell.d))
          THEN Date(cell.y, cell.m, cell.d) ELSE NoDate)
    ELSE IF ValidDate(Date(cell.y, cell.m, cell.d))
    THEN Date(cell.y, cell.m, cell.d) ELSE NoDate

\* format_date_for_output followed by the substitution for <date>: the
\* rendered action is its template with the DD.MM.YYYY text of the date,
\* which names the date.
ActionString(text, date) == [text |-> text, date |-> date]

\* relativedelta(months=..., days=...): months are applied before days.
RelativeDelta(months, days) == [months |-> months, days |-> days]
NoDelta == RelativeDelta(0, 0)
DatePlus(date, delta) == AddDays(AddMonths(date, delta.months), delta.days)
DateMinus(date, delta) == AddDays(AddMonths(date, -delta.months), -delta.days)

StandardRule(attribute, current_threshold, future_window_start,
             current_action, future_action) ==
    [attribute |-> attribute, current_threshold |-> current_threshold,
     future_window_start |-> future_window_start,
     current_action |-> current_action, future_action |-> future_action]

standard_rules ==
    << StandardRule("date_valuation_report", RelativeDelta(36, 0),
                    RelativeDelta(36, 0),
                    "Obtain latest valuation report", "Obtain latest valuation report"),
       StandardRule("date_last_sanction", RelativeDelta(11, 0),
                    RelativeDelta(12, 0),
                    "The account is due for renewal",
                    "The account will be due for renewal"),
       StandardRule("date_lsr", RelativeDelta(36, 0), RelativeDelta(36, 0),
                    "Obtain latest LSR", "Obtain latest LSR"),
       StandardRule("date_internal_rating", RelativeDelta(6, 0),
                    RelativeDelta(6, 0),
                    "Conduct Internal Rating Assessment",
                    "Conduct Internal Rating Assessment"),
       StandardRule("date_external_rating", RelativeDelta(6, 0),
                    RelativeDelta(6, 0),
                    "Obtain External Rating Assessment",
                    "Obtain External Rating Assessment"),
       StandardRule("date_tev_report", RelativeDelta(36, 0),
                    RelativeDelta(36, 0),
                    "Obtain latest TEV Report", "Obtain latest TEV Report"),
       StandardRule("date_stock_statement", RelativeDelta(0, 10), NoDelta,
                    "Obtain certified Stock Statement", "") >>

DateAttributes ==
    {standard_rules[i].attribute : i \in DOMAIN standard_rules}
        \cup {"date_of_bank_credit_report", "date_of_last_audit"}

\* "if action_str not in actions: actions.append(action_str)"; AppendAgain
\* is the append that does not look.
AppendAgain(actions, action_str) == actions \o <<action_str, action_str>>
AppendIfAbsent(actions, action_str) ==
    IF \E i \in DOMAIN actions : actions[i] = action_str THEN actions
    ELSE Append(actions, action_str)

\* today <= date < next_3_months_limit.
InNext3Months(date, today) ==
    DateLeq(today, date) /\ DateLess(date, AddMonths(today, 3))

\* "db_date < current_due_date"; DueOnThreshold also fires on the day of the
\* threshold itself.
DueOnThreshold(db_date, today, current_threshold) ==
    DateLeq(db_date, DateMinus(today, current_threshold))
CurrentlyDue(db_date, today, current_threshold) ==
    DateLess(db_date, DateMinus(today, current_threshold))

Recommendations(current_month, next_3_month) ==
    [current_month |-> current_month, next_3_month |-> next_3_month]

\* One turn of "for rule in standard_rules".
ApplyStandardRule(rule, company_data, today, lists) ==
    LET db_date == parse_db_date(company_data[rule.attribute])
        dated == IF rule.attribute = "date_stock_statement" THEN NoDate
                 ELSE db_date
    IN  IF db_date = NoDate THEN lists
        ELSE Recommendations(
                IF CurrentlyDue(db_date, today, rule.current_threshold)
                THEN AppendIfAbsent(lists.current_month,
                                    ActionString(rule.current_action, dated))
                ELSE lists.current_month,
                IF /\ rule.future_action # ""
                   /\ rule.future_window_start # NoDelta
                   /\ InNext3Months(DatePlus(db_date, rule.future_window_start),
                                    today)
                THEN AppendIfAbsent(lists.next_3_month,
                                    ActionString(rule.future_action, dated))
                ELSE lists.next_3_month)

RECURSIVE ProcessStandardRules(_, _, _, _)
ProcessStandardRules(i, company_data, today, lists) ==
    IF i > Len(standard_rules) THEN lists
    ELSE ProcessStandardRules(i + 1, company_data, today,
            ApplyStandardRule(standard_rules[i], company_data, today, lists))

\* Rule 4 (bank credit report).
ProcessRule4(company_data, today, lists) ==
    LET date_last_sanction == parse_db_date(company_data["date_last_sanction"])
        date_bank_credit_report ==
            parse_db_date(company_data["date_of_bank_credit_report"])
        action_str_r4 == ActionString("Get CIR", date_bank_credit_report)
    IN  IF date_last_sanction = NoDate \/ date_bank_credit_report = NoDate
        THEN lists
        ELSE Recommendations(
                IF /\ DateLess(date_bank_credit_report, date_last_sanction)
                   /\ DateLess(date_last_sanction, AddMonths(today, -11))
                THEN AppendIfAbsent(lists.current_month, action_str_r4)
                ELSE lists.current_month,
                IF InNext3Months(AddMonths(date_bank_credit_report, 11), today)
                THEN AppendIfAbsent(lists.next_3_month, action_str_r4)
                ELSE lists.next_3_month)

\* Rule 7 (credit audit).
ProcessRule7(company_data, today, lists) ==
    LET date_bank_credit_report ==
            parse_db_date(company_data["date_of_bank_credit_report"])
        date_last_audit == parse_db_date(company_data["date_of_last_audit"])
    IN  Recommendations(
            IF /\ date_last_audit # NoDate
               /\ DateLess(date_last_audit, AddMonths(today, -11))
            THEN AppendIfAbsent(lists.current_month,
                    ActionString("Account is due for Credit Audit",
                                 date_last_audit))
            ELSE lists.current_month,
            IF /\ date_bank_credit_report # NoDate
               /\ date_last_audit # NoDate
               /\ InNext3Months(AddMonths(date_bank_credit_report, 11), today)
            THEN AppendIfAbsent(lists.next_3_month,
                    ActionString("Account will be due for Credit Audit",
                                 date_last_audit))
            ELSE lists.next_3_month)

generate_recommendations(company_data, today) ==
    ProcessRule7(company_data, today,
        ProcessRule4(company_data, today,
            ProcessStandardRules(1, company_data, today,
                                 Recommendations(<<>>, <<>>))))

\* _calculate_target_date(self): the end of the last financial year, as the
\* date the text "31.03.<year>" names.  TargetDateFromMarch takes March for
\* a month of the new financial year.
TargetDateFromMarch(now) ==
    IF now.m >= 3 THEN Date(now.y, 3, 31) ELSE Date(now.y - 1, 3, 31)
calculate_target_date(now) ==
    IF now.m > 3 THEN Date(now.y, 3, 31) ELSE Date(now.y - 1, 3, 31)

\* The days the clock may show: the first day of every month of a year,
\* month ends from which a month step is cut short, and a 29 February.
Todays ==
    {Date(2025, m, 1) : m \in 1..12}
        \cup {Date(2025, 3, 31), Date(2025, 1, 31), Date(2025, 5, 31),
              Date(2024, 12, 31), Date(2024, 2, 29)}

Around(date) == {IsoCell(AddDays(date, k)) : k \in (-DayMargin)..DayMargin}

\* Cells of loan_data.date_last_sanction: the days around eleven months,
\* twelve months and nine months before today, ten months before today,
\* a date written month first, NULL and text that is no date.
SanctionCells(today) ==
    Around(AddMonths(today, -11)) \cup Around(AddMonths(today, -12))
        \cup Around(AddMonths(today, -9))
        \cup {IsoCell(AddMonths(today, -10)),
              Cell("m/d/Y", today.y - 1, 2, 3), NullCell, TextCell}

BankCreditReportCells(today) ==
    {NullCell, IsoCell(AddMonths(today, -11)), IsoCell(AddMonths(today, -48))}

LastAuditCells(today) ==
    {NullCell, TextCell, IsoCell(AddMonths(today, -12)),
     Cell("m/d/yy", today.y, today.m, today.d)}

ReportCells(today) ==
    {NullCell, IsoCell(AddMonths(today, -37)), IsoCell(AddMonths(today, -36))}

RatingCells(today) == {NullCell, IsoCell(AddMonths(today, -6))}

StockStatementCells(today) ==
    {IsoCell(AddDays(today, -11)), IsoCell(AddDays(today, -10))}

\* The columns of a customer_master row LEFT JOINed to no loan_data row.
NullRow == [a \in DateAttributes |-> NullCell]

LoanRows(today) ==
    {[a \in DateAttributes |->
        CASE a = "date_last_sanction" -> sanction
          [] a = "date_of_bank_credit_report" -> bcr
          [] a = "date_of_last_audit" -> audit
          [] a \in {"date_internal_rating", "date_external_rating"} -> rating
          [] a = "date_stock_statement" -> stock
          [] OTHER -> report] :
        sanction \in SanctionCells(today),
        bcr \in BankCreditReportCells(today),
        audit \in LastAuditCells(today),
        report \in ReportCells(today),
        rating \in RatingCells(today),
        stock \in StockStatementCells(today)}

\* customer_master holds the one company "A B" or no company.
CompanyName == <<"A", " ", "B">>
RecAccountNames == {CompanyName, <<" ", "a", " ", "b">>, <<"C">>}

NoRecResponse ==
    [status |-> 0, recommended_action |-> Recommendations(<<>>, <<>>)]

RecIdle ==
    /\ rec_pc = "idle"
    /\ rec_today = NoDate
    /\ rec_account_name = <<>>
    /\ db_company = FALSE
    /\ db_loan = FALSE
    /\ db_row = NullRow
    /\ rec_response = NoRecResponse
    /\ target_date = NoDate

\* A request against a store in which the company has a loan row, has
\* none, or is not there.
RecInit ==
    /\ rec_pc = "call"
    /\ rec_today \in Todays
    /\ \/ /\ rec_account_name = CompanyName
          /\ db_company = TRUE
          /\ db_loan = TRUE
          /\ db_row \in LoanRows(rec_today)
       \/ /\ rec_account_name \in RecAccountNames
          /\ db_company \in BOOLEAN
          /\ db_loan = FALSE
          /\ db_row = NullRow
    /\ rec_response = NoRecResponse
    /\ target_date = NoDate

\* cursor.fetchone() of the LEFT JOIN for the lowered, stripped name.
FetchOne(account_name) ==
    IF db_company /\ Lower(StripWhitespace(account_name))
                        = Lower(StripWhitespace(CompanyName))
    THEN <<IF db_loan THEN db_row ELSE NullRow>>
    ELSE <<>>

\* retrieve_recommendation_endpoint with get_recommendations_for_account.
GetRecommendations ==
    /\ rec_pc = "call"
    /\ LET company_data_row == FetchOne(rec_account_name)
       IN  rec_response' =
             IF company_data_row = <<>>
             THEN [NoRecResponse EXCEPT !.status = 404]
             ELSE [status |-> 200,
                   recommended_action |->
                       generate_recommendations(company_data_row[1],
                                                rec_today)]
    /\ rec_pc' = "done"
    /\ UNCHANGED <<rec_today, rec_account_name, db_company, db_loan, db_row,
                   target_date>>
    /\ UNCHANGED nonRecVars

\* get_db_connection or the query raises sqlite3.Error.
DatabaseError ==
    /\ rec_pc = "call"
    /\ rec_response' = [NoRecResponse EXCEPT !.status = 500]
    /\ rec_pc' = "done"
    /\ UNCHANGED <<rec_today, rec_account_name, db_company, db_loan, db_row,
                   target_date>>
    /\ UNCHANGED nonRecVars

\* FinancialDataExtractor.__init__: self.target_date.
CalculateTargetDate ==
    /\ target_date = NoDate
    /\ target_date' = calculate_target_date(rec_today)
    /\ UNCHANGED <<rec_pc, rec_today, rec_account_name, db_company, db_loan,
                   db_row, rec_response>>
    /\ UNCHANGED nonRecVars

RecNext == GetRecommendations \/ DatabaseError \/ CalculateTargetDate

-----------------------------------------------------------------------------
(* The tool-using loop of the per-sheet analysis agent                      *)
(* (create_react_agent, invoked by analyze_markdown_and_generate_report).   *)
(* A step is one turn of the loop: the model answers or asks for tools, or  *)
(* the tools run.  The ceiling of 15 is given to compiled_workflow.ainvoke; *)
(* self.llm_agent_executor.ainvoke(agent_input) is given no configuration,  *)
(* so the loop runs under the workflow's ceiling only where the runtime     *)
(* hands the caller's configuration down to it.                             *)

MaxAgentSteps == 17

\* The ceiling in force in the loop: the workflow's when it is handed down,
\* otherwise none that this program sets (the loop is followed as far as
\* MaxAgentSteps).
AgentCeiling == IF agent_inherits THEN RecursionLimit ELSE MaxAgentSteps

AgentIdle ==
    /\ agent_pc = "idle"
    /\ agent_inherits = FALSE
    /\ agent_steps = 0
    /\ agent_tool_calls = 0
    /\ agent_tool_errors = 0

\* llm_agent_result = await self.llm_agent_executor.ainvoke(agent_input)
AgentInit ==
    /\ agent_pc = "model"
    /\ agent_inherits \in BOOLEAN
    /\ agent_steps = 0
    /\ agent_tool_calls = 0
    /\ agent_tool_errors = 0

AgentLoopRunning == agent_pc \in {"model", "tools"}

\* The model's turn: it asks for tools, gives its final answer, or the call
\* raises.
AgentModelTurn ==
    /\ agent_pc = "model"
    /\ agent_steps < AgentCeiling
    /\ agent_steps' = agent_steps + 1
    /\ \E next \in {"tools", "answered", "raised"} : agent_pc' = next
    /\ UNCHANGED <<agent_inherits, agent_tool_calls, agent_tool_errors>>
    /\ UNCHANGED nonAgentVars

\* The tools' turn: the calls run, their results (error texts included) go
\* back to the model.
AgentToolsTurn ==
    /\ agent_pc = "tools"
    /\ agent_steps < AgentCeiling
    /\ agent_steps' = agent_steps + 1
    /\ agent_tool_calls' = agent_tool_calls + 1
    /\ \E failed \in BOOLEAN :
          agent_tool_errors' = agent_tool_errors + (IF failed THEN 1 ELSE 0)
    /\ agent_pc' = "model"
    /\ UNCHANGED agent_inherits
    /\ UNCHANGED nonAgentVars

\* The ceiling is reached with the loop unfinished: the invocation ends
\* with the limit error.
AgentLimitReached ==
    /\ AgentLoopRunning
    /\ agent_steps >= AgentCeiling
    /\ agent_pc' = "limit_error"
    /\ UNCHANGED <<agent_inherits, agent_steps, agent_tool_calls,
                   agent_tool_errors>>
    /\ UNCHANGED nonAgentVars

AgentNext == AgentModelTurn \/ AgentToolsTurn \/ AgentLimitReached

-----------------------------------------------------------------------------
(* FinancialDataExtractor.run after the extraction: create_alerts_data,   *)
(* classify_financial_attributes and the file alert_messages.md.           *)
(* A field of the extraction record holds a list with a number            *)
(* ("value"), holds the empty list ("empty"), or is not in the record     *)
(* ("absent").                                                             *)

MaxMissing == 2

\* desired_attributes and key_mapping: the eight columns copied from the
\* record, and the record key each is copied from.
desired_attributes ==
    <<"Current Ratio", "Debt to Equity Ratio", "TOL/TNW Ratio",
      "Debt Service Coverage Ratio (DSCR)", "Adjusted TNW", "Net Sales",
      "Total Debt to EBITDA", "ROE %">>
key_mapping ==
    [n \in {"Current Ratio"} |-> "Current Ratio"]
 @@ [n \in {"Debt to Equity Ratio"} |-> "Debt/Equity Ratio"]
 @@ [n \in {"TOL/TNW Ratio"} |-> "TOL/TNW Ratio"]
 @@ [n \in {"Debt Service Coverage Ratio (DSCR)"} |-> "DSCR"]
 @@ [n \in {"Adjusted TNW"} |-> "Adjusted TNW"]
 @@ [n \in {"Net Sales"} |-> "Net Sales"]
 @@ [n \in {"Total Debt to EBITDA"} |-> "Debt/EBIDTA %"]
 @@ [n \in {"ROE %"} |-> "Return on Equity %"]

\* The keys read as data[key][0] by the three computed columns.
QuickRatioKeys ==
    {"a) R.M. Imported", "b) R.M. Indigenous", "c) Stock in Process",
     "d) Finished Goods", "e) Other Consumables", "Current Assets",
     "Current Liabilities"}
IcrKeys ==
    {"Gross Sales Local", "Gross Sales Exports", "Opening S.I.P.",
     "Raw Materials Imported", "Raw Materials Indigeneous", "Other Spares",
     "Power & Fuel", "Direct Labour", "Repairs & Main", "Other Operating Exp",
     "Depreciation", "Closing S.I.P", "SG&A Expenses"}
NetCashAccrualKeys == {"Cash Accruals", "Net Sales"}
ComputedColumns ==
    {"Quick Ratio", "Interest Coverage Ratio (ICR)",
     "Net Cash Accrual to Net Sales"}

\* The keys whose absence raises KeyError, and whose empty list raises
\* IndexError, in create_alerts_data (EveryReadKey: were the copied keys
\* subscripted too).
EveryReadKey ==
    QuickRatioKeys \cup IcrKeys \cup NetCashAccrualKeys
        \cup {key_mapping[n] : n \in DOMAIN key_mapping}
SubscriptedKeys == QuickRatioKeys \cup IcrKeys \cup NetCashAccrualKeys

SourceKeys ==
    {"Date"} \cup {key_mapping[n] : n \in DOMAIN key_mapping}
        \cup SubscriptedKeys

CompleteRecord == [k \in SourceKeys |-> "value"]

\* The records with at most n fields empty or absent.
RECURSIVE RecordsMissing(_)
RecordsMissing(n) ==
    IF n = 0 THEN {CompleteRecord}
    ELSE LET fewer == RecordsMissing(n - 1)
         IN  fewer \cup {[d EXCEPT ![k] = s] :
                            d \in fewer, k \in SourceKeys,
                            s \in {"empty", "absent"}}

Column(name, value) == [column |-> name, value |-> value]

\* The loop over desired_attributes: None unless the key is in the record
\* with a non-empty list.
HeadlineValue(data, desired_name) ==
    IF data[key_mapping[desired_name]] = "value" THEN "value" ELSE "None"

\* create_alerts_data(data): the one-row frame, as its columns, unless a
\* subscripted key is absent or empty.
create_alerts_data(data) ==
    IF \E k \in SubscriptedKeys : data[k] # "value"
    THEN [raised |-> TRUE, frame |-> {}]
    ELSE [raised |-> FALSE,
          frame |-> {Column(desired_attributes[i],
                            HeadlineValue(data, desired_attributes[i])) :
                        i \in DOMAIN desired_attributes}
                    \cup {Column(c, "value") : c \in ComputedColumns}]

\* classify_financial_attributes on that frame: None in a column of
\* numbers is NaN, which no threshold matches; a number is rated by its
\* value ("rated": one of the levels of its rule, not followed here).
ClassifyFrame(frame) ==
    {[attribute |-> LowerStrip(c.column),
      level |-> IF c.value = "None"
                THEN evaluate_attribute(LowerStrip(c.column), NaN, NaN).level
                ELSE "rated"] : c \in frame}

DeriveIdle ==
    /\ der_pc = "idle"
    /\ extracted_data = CompleteRecord
    /\ alert_data = {}
    /\ alert_file = {}

DeriveInit ==
    /\ der_pc = "call"
    /\ extracted_data \in RecordsMissing(MaxMissing)
    /\ alert_data = {}
    /\ alert_file = {}

\* run(), the try block after the extraction: the year is read from
\* extracted_data["Date"][0], the frame built and classified, and the
\* result written to alert_messages.md when it is not empty.  Whatever is
\* raised is caught and printed.
DeriveAlerts ==
    /\ der_pc = "call"
    /\ der_pc' = "done"
    /\ LET made == create_alerts_data(extracted_data)
       IN  IF extracted_data["Date"] # "value" \/ made.raised
           THEN UNCHANGED <<alert_data, alert_file>>
           ELSE /\ alert_data' = made.frame
                /\ alert_file' = ClassifyFrame(made.frame)
    /\ UNCHANGED extracted_data
    /\ UNCHANGED nonDeriveVars

DeriveNext == DeriveAlerts

-----------------------------------------------------------------------------
(* Specifications                                                          *)

\* Initial states: the driven group at its start, every other group idle.
InitScope == ScopeInit /\ RunIdle /\ TokIdle /\ ApiIdle /\ AlertIdle
    /\ GetIdle /\ RecIdle /\ AgentIdle /\ DeriveIdle

SpecScope == InitScope /\ [][ScopeNext]_vars

RunNext ==
    \/ StartNode
    \/ ExtractOpen
    \/ ExtractSheet
    \/ ExtractSave
    \/ GraphSheet
    \/ GraphReturn
    \/ AnalyzeSheet
    \/ AnalyzeReturn
    \/ SummarizeReport
    \/ CustomerAlert
    \/ Respond

\* A run starts inside the entered resource scope.
Init == ScopeEntered /\ RunInit /\ TokIdle /\ ApiIdle /\ AlertIdle
    /\ GetIdle /\ RecIdle /\ AgentIdle /\ DeriveIdle

Spec == Init /\ [][RunNext]_vars

InitTok == ScopeIdle /\ RunIdle /\ TokInit /\ ApiIdle /\ AlertIdle
    /\ GetIdle /\ RecIdle /\ AgentIdle /\ DeriveIdle

SpecTok == InitTok /\ [][TokNext]_vars

InitApi == ScopeIdle /\ RunIdle /\ TokIdle /\ ApiInit /\ AlertIdle
    /\ GetIdle /\ RecIdle /\ AgentIdle /\ DeriveIdle

SpecApi == InitApi /\ [][ApiNext]_vars

InitAlert == ScopeIdle /\ RunIdle /\ TokIdle /\ ApiIdle /\ AlertInit
    /\ GetIdle /\ RecIdle /\ AgentIdle /\ DeriveIdle

SpecAlert == InitAlert /\ [][AlertNext]_vars

InitGet ==
    ScopeIdle /\ RunIdle /\ TokIdle /\ ApiIdle /\ AlertIdle /\ GetInit
        /\ RecIdle /\ AgentIdle /\ DeriveIdle

SpecGet == InitGet /\ [][GetNext]_vars

InitRec ==
    ScopeIdle /\ RunIdle /\ TokIdle /\ ApiIdle /\ AlertIdle /\ GetIdle
        /\ RecInit /\ AgentIdle /\ DeriveIdle

SpecRec == InitRec /\ [][RecNext]_vars

InitAgent ==
    ScopeIdle /\ RunIdle /\ TokIdle /\ ApiIdle /\ AlertIdle /\ GetIdle
        /\ RecIdle /\ AgentInit /\ DeriveIdle

SpecAgent == InitAgent /\ [][AgentNext]_vars

InitDerive ==
    ScopeIdle /\ RunIdle /\ TokIdle /\ ApiIdle /\ AlertIdle /\ GetIdle
        /\ RecIdle /\ AgentIdle /\ DeriveInit

SpecDerive == InitDerive /\ [][DeriveNext]_vars

-----------------------------------------------------------------------------
(* Properties                                                              *)

NodeOrder == <<"extract_excel", "graph_data_node", "analyze_sheets",
               "summarize_report", "customer_alert">>

\* C1: within one run the five nodes execute strictly one after another in
\* the order extract_excel, graph_data_node, analyze_sheets,
\* summarize_report, customer_alert: never two nodes active at once, every
\* start is the next node of the order and follows the end of its
\* predecessor, and no node starts twice.
C1_StrictNodeSequence ==
    /\ Cardinality(wf_active) <= 1
    /\ Len(node_log) <= 2 * Len(NodeOrder)
    /\ \A i \in DOMAIN node_log :
          IF i % 2 = 1
          THEN /\ node_log[i].ev = "start"
               /\ node_log[i].node = NodeOrder[(i + 1) \div 2]
               /\ i > 1 => node_log[i - 1].ev = "end"
          ELSE /\ node_log[i].ev \in {"end", "raise"}
               /\ node_log[i].node = node_log[i - 1].node

C1_Witness ==
    /\ wf_status = "returned"
    /\ [i \in 1..Len(NodeOrder) |-> node_log[2 * i].node] = NodeOrder
    /\ \A i \in 1..Len(NodeOrder) : node_log[2 * i].ev = "end"

AnalysisCallSites == {"extract_data_in_required_format",
                      "analyze_markdown_and_generate_report"}

RaisedAnalysisCalls ==
    {i \in DOMAIN llm_calls :
        llm_calls[i].site \in AnalysisCallSites /\ llm_calls[i].raised}

AnalyzeErrorKinds ==
    {"Analysis Skip (No Data)", "Config Error: Data format file not found",
     "Config Error: Failed to load data format", "LLM Formatting Error",
     "File Write Error (Formatted Data)", "Analysis Skip (No Prompt)",
     "Agent Error (Invalid Result)", "Agent Error (No Final Msg)",
     "File Write Error (Report)", "Analysis Error"}

AnalyzeErrors == SelectSeq(error_logs, LAMBDA e : e.kind \in AnalyzeErrorKinds)

AnalyzeFinished ==
    \E i \in DOMAIN node_log :
        node_log[i].node = "analyze_sheets" /\ node_log[i].ev \in {"end", "raise"}

\* C2: when analyze_sheets has finished and the model or agent call of
\* exactly one queued sheet raised, the node returned normally, every queued
\* sheet has its insight in the queue's order, and the node added exactly
\* one entry to the error list, naming the failed sheet.
C2_OneRaisedCallOneErrorEntry ==
    (AnalyzeFinished /\ Cardinality(RaisedAnalysisCalls) = 1) =>
        LET failed == llm_calls[CHOOSE i \in RaisedAnalysisCalls : TRUE].sheet
        IN  /\ \E i \in DOMAIN node_log :
                  node_log[i] = [ev |-> "end", node |-> "analyze_sheets"]
            /\ DictKeys(insights) = sheets_to_analyze
            /\ Len(AnalyzeErrors) = 1
            /\ AnalyzeErrors[1].sheet = failed

CallSites == {"extract_data_in_required_format", "graph_data_agent",
              "analyze_markdown_and_generate_report",
              "generate_cumulative_report", "customer_alert"}

\* C6: every model invocation of the run has exactly one row in
\* audit_llm_calls, whether it returned or raised, and no row exists without
\* a model invocation: per call site the rows written equal the calls made.
C6_OneAuditRowPerModelCall ==
    \A site \in CallSites :
        Cardinality({i \in DOMAIN audit_rows : audit_rows[i].node = site})
            = Cardinality({i \in DOMAIN llm_calls : llm_calls[i].site = site})

\* C9: when the analysis request is answered after the workflow returned,
\* every node-local failure of the run has an entry in run_errors naming
\* its sheet, and the reply carries run_errors exactly when at least one
\* such failure occurred.
C9_FailuresReturnedAsRunErrors ==
    response.status = 200 =>
        /\ \A f \in failures :
              \E i \in DOMAIN response.run_errors :
                  response.run_errors[i].sheet \in {f.sheet, MdFileName(f.sheet)}
        /\ response.has_run_errors <=> failures # {}

\* The token counts a response carries: those of the message's metadata,
\* of the dict itself, or of the last assistant message of an agent result.
CarriedMeta(resp) ==
    IF resp.type = "AIMessage" THEN MessageMetadata(resp.message)
    ELSE IF resp.type = "dict" THEN resp.body
    ELSE IF resp.type = "agent" /\ AiMessageIndexes(resp.messages) # {}
    THEN MessageMetadata(resp.messages[
             CHOOSE i \in AiMessageIndexes(resp.messages) :
                 \A j \in AiMessageIndexes(resp.messages) : j <= i])
    ELSE MissingMeta

CarriedCounts(resp) ==
    IF MetaTruthy(CarriedMeta(resp)) THEN ReadCounts(CarriedMeta(resp))
    ELSE ZeroTokens

\* C7: token-usage extraction never raises; for a model reply or an agent
\* result that carries numeric counts with no total (or a zero total) and a
\* non-zero input or output count, the returned total is the sum of the
\* input and output counts; for a response without usable token information
\* the returned input, output and total are all 0.
C7_TotalIsSumOfCounts ==
    (tok_pc = "done" /\ tok_response.type # "dict") =>
        LET c == CarriedCounts(tok_response) IN
        /\ ~tok_raised
        /\ (/\ c.input.k = "int" /\ c.output.k = "int"
            /\ c.total = Num(0)
            /\ (c.input.n > 0 \/ c.output.n > 0))
              => tok_result.total = Num(c.input.n + c.output.n)
        /\ c = ZeroTokens => tok_result = ZeroTokens

\* C3: any two analysis runs, also two for the same account started within
\* the same clock second, get different run output directories: no run
\* directory is made or written by more than one run.
C3_DistinctRunDirectories ==
    \A a \in run_dirs \cup run_outputs, b \in run_dirs \cup run_outputs :
        a.path = b.path => a.run = b.run

\* A request the validation of POST /analysis is meant to turn away.
InvalidRequest(r) ==
    \/ api_req[r].account_name \in {EmptyName, SelectACompany}
    \/ ~ExcelFileName(api_req[r].filename)

\* C8: POST /analysis with an empty or placeholder account name, or with a
\* file whose name does not end in .xlsx/.xls, is answered with 400 (once
\* the handler's self test has passed), and no upload directory is created,
\* no upload is renamed, no file is written and the orchestrator is never
\* started for it.
C8_InvalidRequestRejected ==
    \A r \in Requests :
        (api_req[r].pc # "idle" /\ InvalidRequest(r)) =>
            /\ api_req[r].effects = {}
            /\ api_req[r].pc \in {"testing", "done"}
            /\ (api_req[r].pc = "done"
                  /\ api_req[r].detail # "subprocess test")
                  => api_req[r].status = 400

\* C10: for every attribute of the rule table and every numeric value the
\* classifier returns exactly one message, whose level is High, Medium, Low
\* or Unclassified, and does not raise; for current ratio 1.0 is Medium,
\* 1.2 and 1.33 are Low, every value below 1.0 is High and every value
\* above 1.33 is Unclassified.
C10_ClassificationTotal ==
    (/\ alert_pc = "done"
     /\ LowerStrip(alert_column) \in DOMAIN attribute_rules
     /\ alert_value.k \in {"num", "nan"}) =>
        /\ ~alert_raised
        /\ Len(alert_messages) = 1
        /\ alert_messages[1].level \in {"High", "Medium", "Low", "Unclassified"}
        /\ (LowerStrip(alert_column) = "current ratio" /\ alert_value.k = "num")
              => LET x == alert_value.milli
                     level == alert_messages[1].level
                 IN  /\ x < 1000 => level = "High"
                     /\ x = 1000 => level = "Medium"
                     /\ x \in {1200, 1330} => level = "Low"
                     /\ x > 1330 => level = "Unclassified"

C10_Witness ==
    /\ alert_pc = "done"
    /\ alert_column = "Current Ratio"
    /\ alert_value = Number(1330)
    /\ Len(alert_messages) = 1
    /\ alert_messages[1].level = "Low"

\* C11: for an attribute whose lower-cased, trimmed name is not a key of the
\* rule table the classifier yields the "Unclassified Alert: ..." message,
\* the same form as for a known attribute whose value matches no band.
C11_UnknownAttributeUnclassified ==
    (alert_pc = "done" /\ LowerStrip(alert_column) \notin DOMAIN attribute_rules)
        => /\ ~alert_raised
           /\ Len(alert_messages) = 1
           /\ alert_messages[1].level = "Unclassified"

\* The run directories of the account, and the latest of them.
MatchingRunDirs ==
    {e.name : e \in {d \in out_entries : d.is_dir /\ RunDirPatternMatch(d.name)}}
LatestRun ==
    CHOOSE n \in MatchingRunDirs : \A m \in MatchingRunDirs : ~StrLess(n, m)
AccountFound ==
    /\ get_pc = "done"
    /\ out_account_dir
    /\ sanitize_filename(get_account_name) = OutputAccount

\* The messages of the rows of a frame that carry a High, Medium or Low
\* alert, in row order.
RECURSIVE ClassifiedMessages(_)
ClassifiedMessages(frame) ==
    IF frame = <<>> THEN <<>>
    ELSE IF Head(Head(frame).Message).text \in {"High", "Medium", "Low"}
    THEN <<Head(frame).Message>> \o ClassifiedMessages(Tail(frame))
    ELSE ClassifiedMessages(Tail(frame))

SanctionDate == parse_db_date(db_row["date_last_sanction"])
CurrentMonth == rec_response.recommended_action.current_month
Next3Month == rec_response.recommended_action.next_3_month
HasAction(actions, text) == \E i \in DOMAIN actions : actions[i].text = text
RecAnswered == rec_pc = "done" /\ rec_response.status = 200

\* C13: for date_last_sanction, the current-month list holds the "due for
\* renewal" action exactly when the date is strictly earlier than today
\* minus 11 months (11 months and 1 day ago fires, exactly 10 months ago
\* does not), and the next-3-month list holds the "will be due for renewal"
\* action exactly when the date plus one year lies in
\* [today, today + 3 months).
C13_RenewalRule ==
    RecAnswered =>
        /\ HasAction(CurrentMonth, "The account is due for renewal")
              <=> /\ SanctionDate # NoDate
                  /\ DateLess(SanctionDate, AddMonths(rec_today, -11))
        /\ HasAction(Next3Month, "The account will be due for renewal")
              <=> /\ SanctionDate # NoDate
                  /\ DateLeq(rec_today, AddMonths(SanctionDate, 12))
                  /\ DateLess(AddMonths(SanctionDate, 12),
                              AddMonths(rec_today, 3))
        /\ SanctionDate = AddDays(AddMonths(rec_today, -11), -1)
              => HasAction(CurrentMonth, "The account is due for renewal")
        /\ SanctionDate = AddMonths(rec_today, -10)
              => ~HasAction(CurrentMonth, "The account is due for renewal")

\* A sanction 11 months and 1 day before a month end: due now, and due
\* again within the next three months.
C13_Witness ==
    /\ RecAnswered
    /\ rec_today = Date(2025, 1, 31)
    /\ SanctionDate = Date(2024, 2, 28)
    /\ HasAction(CurrentMonth, "The account is due for renewal")
    /\ HasAction(Next3Month, "The account will be due for renewal")

NoDuplicates(actions) ==
    \A i, j \in DOMAIN actions : i # j => actions[i] # actions[j]

CompanyInTable ==
    /\ db_company
    /\ Lower(StripWhitespace(rec_account_name)) = Lower(StripWhitespace(CompanyName))

\* C15: the reply is 404 when the company is not in the company table and
\* also when the company is there but has no loan row; with a loan row it
\* is 200 with the two lists.
C15_NoLoanRowIs404 ==
    (rec_pc = "done" /\ rec_response.status # 500) =>
        IF CompanyInTable /\ db_loan THEN rec_response.status = 200
        ELSE rec_response.status = 404

\* C17: the target date is 31 March of the current year from April to
\* December and of the previous year from January to March, and it is never
\* later than the system date.
C17_TargetDateIsLastYearEnd ==
    target_date # NoDate =>
        /\ target_date = Date(IF rec_today.m \in 4..12 THEN rec_today.y
                              ELSE rec_today.y - 1, 3, 31)
        /\ DateLeq(target_date, rec_today)

\* On 31 March the financial year that ended is the one of the year before.
C17_Witness ==
    /\ rec_today = Date(2025, 3, 31)
    /\ target_date = Date(2024, 3, 31)

\* The sheets extract_excel read without an exception, in workbook order.
ReadFailed(sheet_name) ==
    \E i \in DOMAIN error_logs :
        /\ error_logs[i].kind = "Excel Processing Error"
        /\ error_logs[i].sheet = sheet_name
ReadSheets == SelectSeq(ExtractNames, LAMBDA s : ~ReadFailed(s))

\* C16: sheets whose names differ only by a trailing number are merged:
\* "Balance Sheet" and "Balance Sheet2" give one entry keyed "Balance Sheet"
\* (one queued sheet name) whose text holds both tables in workbook order,
\* and there are as many entries as distinct base names among the sheets
\* that were read.
C16_SheetsMergedByBaseName ==
    node_pc["extract_excel"] = "done" =>
        /\ Len(sheets_data) =
              Cardinality({BaseName(ReadSheets[i]) : i \in DOMAIN ReadSheets})
        /\ \A i, j \in DOMAIN sheets_data :
              i # j => sheets_data[i].k # sheets_data[j].k
        /\ sheets_to_analyze = [i \in DOMAIN sheets_data |-> sheets_data[i].k]
        /\ \A i \in DOMAIN sheets_data :
              sheets_data[i].v =
                  SelectSeq(ReadSheets,
                            LAMBDA s : BaseName(s) = sheets_data[i].k)
        /\ ({BalanceSheet, BalanceSheet2} \subseteq
                {ReadSheets[i] : i \in DOMAIN ReadSheets})
              => /\ \E i \in DOMAIN sheets_data :
                       /\ sheets_data[i].k = BalanceSheet
                       /\ sheets_data[i].v = <<BalanceSheet, BalanceSheet2>>
                 /\ \A i \in DOMAIN sheets_to_analyze :
                       sheets_to_analyze[i] # BalanceSheet2

\* Both balance sheets were read and merged while another sheet of the
\* workbook failed to read.
C16_Witness ==
    /\ node_pc["extract_excel"] = "done"
    /\ \E i \in DOMAIN sheets_data :
          sheets_data[i].v = <<BalanceSheet, BalanceSheet2>>
    /\ ReadFailed(ProfitLoss)
    /\ Len(sheets_data) = 2

\* C18: find_latest_run_dir returns the directory whose name is the
\* lexically greatest among the directories named run_<8 digits>_<6 digits>;
\* files and directories of other names are ignored, and nothing is
\* returned when no directory matches.
C18_LatestRunIsGreatestMatch ==
    (get_pc = "done" /\ sanitize_filename(get_account_name) # <<>>) =>
        IF AccountFound /\ MatchingRunDirs # {}
        THEN /\ get_latest \in MatchingRunDirs
             /\ \A m \in MatchingRunDirs : ~StrLess(get_latest, m)
        ELSE get_latest = <<>>

\* Two run directories beside a file of a later run name: the later of the
\* two directories is returned.
C18_Witness ==
    /\ AccountFound
    /\ Cardinality(MatchingRunDirs) = 2
    /\ \E e \in out_entries :
          /\ ~e.is_dir
          /\ RunDirPatternMatch(e.name)
          /\ \A m \in MatchingRunDirs : StrLess(m, e.name)
    /\ get_latest = RunName(<<"2", "0", "2", "5", "0", "1", "1", "0">>,
                            <<"0", "9", "3", "0", "0", "0">>)

Reports == get_response.reports

\* C19: the list GET /reports returns holds the individual reports first,
\* in alphabetical order of their names, and the cumulative report last.
C19_CumulativeReportLast ==
    (get_pc = "done" /\ get_route = "reports" /\ get_response.status = 200) =>
        /\ \A i, j \in DOMAIN Reports :
              (i < j /\ Reports[i].type = "individual"
                     /\ Reports[j].type = "individual")
                  => ~StrLess(Reports[j].report_name, Reports[i].report_name)
        /\ \A i \in DOMAIN Reports :
              Reports[i].type = "cumulative" => i = Len(Reports)

GraphNodeLeft ==
    \E i \in DOMAIN node_log :
        /\ node_log[i].node = "graph_data_node"
        /\ node_log[i].ev \in {"end", "raise"}

\* C20: in graph_data_node a failure on one sheet (its markdown missing or
\* unreadable, the model call raising, the generated script failing) is
\* caught: no exception leaves the node, and every sheet of graph_inputs
\* has had its turn when the node is left.
C20_ChartFailuresStayInNode ==
    GraphNodeLeft =>
        /\ \A i \in DOMAIN node_log :
              node_log[i].node = "graph_data_node" => node_log[i].ev # "raise"
        /\ loop_i["graph_data_node"] > Len(graph_inputs)

\* C21: no failure of the customer-alert sub-flow (a required sheet missing
\* from the workbook, the model call raising, output that is no JSON, a
\* field missing during the derivation) leaves the customer_alert node: the
\* node ends normally and the request is not answered with an error
\* because of it.
C21_AlertFailuresStayInNode ==
    /\ \A i \in DOMAIN node_log :
          node_log[i].node = "customer_alert" => node_log[i].ev # "raise"
    /\ (\E i \in DOMAIN node_log : node_log[i].node = "customer_alert")
          => response.status # 500

\* C22: the tool-using loop of the per-sheet analysis agent runs under a
\* ceiling of 15 steps: an invocation has ended, with a final answer or the
\* limit error, after at most 15 steps.
C22_AgentLoopBoundedBy15 == agent_steps <= RecursionLimit

\* The data-format extraction of a sheet produced nothing: the sheet has no
\* template, the data format file could not be used, or the formatting
\* call raised.
FormattingProducedNothing(sheet_name) ==
    \/ sheet_name \notin templates
    \/ \E i \in DOMAIN llm_calls :
          /\ llm_calls[i].site = "extract_data_in_required_format"
          /\ llm_calls[i].sheet = sheet_name
          /\ llm_calls[i].raised
    \/ \E i \in DOMAIN error_logs :
          /\ error_logs[i].sheet = sheet_name
          /\ error_logs[i].kind \in
                {"Config Error: Data format file not found",
                 "Config Error: Failed to load data format",
                 "LLM Formatting Error"}

AgentInvokedFor(sheet_name) ==
    \E i \in DOMAIN llm_calls :
        /\ llm_calls[i].site = "analyze_markdown_and_generate_report"
        /\ llm_calls[i].sheet = sheet_name

\* C23: in analyze_sheets a sheet whose data-format extraction produced
\* nothing still has its prompt built (from the raw ingested text) and the
\* agent invoked; without any other failure its insight is no error.
C23_RawTextUsedWithoutFormattedData ==
    \A i \in DOMAIN insights :
        (DictHas(sheets_data, insights[i].k)
            /\ FormattingProducedNothing(insights[i].k))
          => /\ AgentInvokedFor(insights[i].k)
             /\ (insights[i].k \notin templates /\ faults = 0)
                   => "Error:" \notin insights[i].v.marks

\* The content of the last tool message of a conversation that holds no
\* "Error", and the content of its last assistant message.
LastUsableTool(messages) ==
    messages[CHOOSE i \in UsableToolIndexes(messages) :
                \A j \in UsableToolIndexes(messages) : j <= i].content
FinalReport(messages) == messages[FinalAiIndex(messages)].content

\* The conversations told apart by their final report.
ToldByReport ==
    {c \in Conversations :
        /\ AiIndexes(c) # {}
        /\ UsableToolIndexes(c) # {}
        /\ \A d \in Conversations \ {c} :
              AiIndexes(d) # {} => FinalReport(d) # FinalReport(c)}

\* C24: from a conversation with several tool messages the audit table
\* saved for the sheet is that of the last tool message without "Error",
\* and the report is the text of the last assistant message.
C24_AuditFromLastToolMessage ==
    \A i \in DOMAIN insights : \A c \in ToldByReport :
        insights[i].v.text = FinalReport(c)
            => /\ DictHas(audit_data_files, insights[i].k)
               /\ DictGet(audit_data_files, insights[i].k) = LastUsableTool(c)

\* The report texts an agent conversation can end with, and the insights
\* that are such a report: the sheets whose analysis succeeded (the
\* placeholders of the failing paths are other texts).
ReportTexts == {FinalReport(c) : c \in {d \in Conversations : AiIndexes(d) # {}}}
Succeeded(ins) == SelectSeq(ins, LAMBDA it : it.v.text \in ReportTexts)

SummaryLeft ==
    \E i \in DOMAIN node_log :
        node_log[i].node = "summarize_report" /\ node_log[i].ev = "end"
SummaryModelCalled ==
    \E i \in DOMAIN llm_calls : llm_calls[i].site = "generate_cumulative_report"

\* C25: the synthesis prompt of summarize_report holds the report of every
\* sheet whose analysis succeeded and of no other sheet; the model is
\* called iff at least one sheet succeeded, and otherwise a placeholder is
\* the final report.
C25_SummaryOfSucceededSheets ==
    SummaryLeft =>
        /\ SummaryInputs(insights) = Succeeded(insights)
        /\ SummaryModelCalled <=> Succeeded(insights) # <<>>
        /\ ~SummaryModelCalled =>
              final_report \in {"No analysis insights were generated",
                                "Cumulative report could not be generated"}

\* C27: for the column Adjusted TNW a value above 10 is rated High, a value
\* in [7, 10] Medium and a value in [5, 7] that is not Medium Low; no value
\* of these bands is Unclassified.
C27_AdjustedTnwBands ==
    (/\ alert_pc = "done"
     /\ LowerStrip(alert_column) = "adjusted tnw"
     /\ alert_value.k = "num") =>
        LET x == alert_value.milli
            level == alert_messages[1].level
        IN  /\ ~alert_raised
            /\ Len(alert_messages) = 1
            /\ x > 10000 => level = "High"
            /\ (7000 <= x /\ x <= 10000) => level = "Medium"
            /\ (5000 <= x /\ x < 7000) => level = "Low"
            /\ x >= 5000 => level # "Unclassified"

\* The fields of the extraction record that are empty or absent.
MissingKeys == {k \in SourceKeys : extracted_data[k] # "value"}

\* C26: when any field the derivation reads is missing from the record
\* (absent or an empty list), a copied headline field or a field of the
\* computed ratios, no alert frame is built and alert_messages.md is not
\* written; the file is written from a complete record only.
C26_MissingFieldAbortsDerivation ==
    der_pc = "done" =>
        /\ MissingKeys # {} => (alert_data = {} /\ alert_file = {})
        /\ alert_file # {} => extracted_data = CompleteRecord

\* The headline keys that are only copied (Net Sales is divided by, too).
CopiedOnlyKeys ==
    {"Current Ratio", "Debt/Equity Ratio", "TOL/TNW Ratio", "DSCR",
     "Adjusted TNW", "Debt/EBIDTA %", "Return on Equity %"}

\* C26, amended: a missing Date, Net Sales or field of the computed ratios
\* aborts the derivation (no frame, no file); a missing field that is only
\* copied does not: the file is written with all eleven rows, the rows of
\* the missing fields reported as Unclassified.
C26_MissingComputedFieldAborts ==
    der_pc = "done" =>
        IF MissingKeys \subseteq CopiedOnlyKeys
        THEN /\ Cardinality(alert_data) = 11
             /\ Cardinality(alert_file) = 11
             /\ \A n \in DOMAIN key_mapping :
                   key_mapping[n] \in MissingKeys
                     <=> [attribute |-> LowerStrip(n),
                          level |-> "Unclassified"] \in alert_file
        ELSE alert_data = {} /\ alert_file = {}

C26_Witness ==
    /\ der_pc = "done"
    /\ MissingKeys # {}
    /\ MissingKeys \subseteq CopiedOnlyKeys
    /\ alert_file # {}

\* The counts are numbers.
NumericCounts(c) == c.input.k = "int" /\ c.output.k = "int" /\ c.total.k = "int"

\* C28: for an agent result whose last assistant message carries token
\* usage the extraction returns the counts of that message, whichever
\* model family is configured; it returns zeros only when that message
\* carries no count.
C28_AgentResultCounts ==
    (tok_pc = "done" /\ tok_response.type = "agent") =>
        LET c == CarriedCounts(tok_response) IN
        /\ (NumericCounts(c) /\ c.total.n > 0) => tok_result = c
        /\ (NumericCounts(c) /\ (c.input.n > 0 \/ c.output.n > 0 \/ c.total.n > 0))
              => tok_result # ZeroTokens

\* The requests whose upload was written below the upload directory.
Uploaded == {r \in Requests : "write" \in api_req[r].effects}

\* C29: after any sequence of uploads the content of every upload is still
\* on disk, under the posted name or an archive name: no file of the
\* upload tree was renamed onto or written over another.
C29_EarlierUploadsKept ==
    /\ \A r \in Uploaded :
          \E f \in upload_files :
              f.dir = api_req[r].safe_account /\ f.content = r
    /\ \A f \in upload_files, g \in upload_files :
          (f.dir = g.dir /\ f.name = g.name) => f = g

AnalyzeLeft ==
    \E i \in DOMAIN node_log :
        node_log[i].node = "analyze_sheets" /\ node_log[i].ev = "end"

\* An insight that is a placeholder: another text than a report, starting
\* with "Error:" or "Skipped:".
Placeholder(insight) ==
    /\ insight.text \notin ReportTexts
    /\ insight.marks \cap {"Error:", "Skipped:"} # {}

\* C30: when analyze_sheets has returned, insights holds an entry for
\* every sheet that was queued: the sheet's report or a placeholder.
C30_EveryQueuedSheetHasInsight ==
    AnalyzeLeft =>
        \A i \in DOMAIN sheets_to_analyze :
            /\ DictHas(insights, sheets_to_analyze[i])
            /\ LET insight == DictGet(insights, sheets_to_analyze[i])
               IN  insight.text \in ReportTexts \/ Placeholder(insight)

C30_Witness ==
    /\ AnalyzeLeft
    /\ Len(sheets_to_analyze) >= 2
    /\ \E i \in DOMAIN insights : Placeholder(insights[i].v)
    /\ \E i \in DOMAIN insights : insights[i].v.text \in ReportTexts

TeardownRank(r) == CASE r = "db" -> 1 [] r = "session" -> 2 [] r = "client" -> 3

TeardownAttempted == {teardown_log[i].res : i \in DOMAIN teardown_log}

\* C4: __aexit__ attempts its close steps in the fixed order audit database,
\* tool session, tool transport; a close step that raises is logged and
\* neither stops the steps after it (every handle that was set when
\* __aexit__ began is attempted) nor reaches the caller as an exception.
C4_TeardownOrderBestEffort ==
    /\ \A i, j \in DOMAIN teardown_log :
          i < j => TeardownRank(teardown_log[i].res)
                       < TeardownRank(teardown_log[j].res)
    /\ scope_pc \in {"exit_end", "exit_raise", "finished"}
          => TeardownAttempted = exit_handles
    /\ task_outcome # "raised_teardown"

C4_Witness ==
    /\ task_outcome = "returned"
    /\ Len(teardown_log) = 3
    /\ teardown_log[1].raised
    /\ teardown_log[2].raised
    /\ teardown_log[3].res = "client"

\* C5: however the scope ends (body returned, body raised, or __aenter__
\* failed part-way), when control is back at the caller every handle is
\* cleared, a close was attempted on every resource that had been opened,
\* and an entry failure or body exception is the exception the caller gets.
C5_AllResourcesReleased ==
    task_outcome # "pending" =>
        /\ ~db_conn /\ ~mcp_session /\ ~mcp_client /\ ~rw_set
        /\ opened \subseteq
              (TeardownAttempted \cup (IF setup_closed THEN {"db"} ELSE {}))
        /\ exit_via = "enter" => task_outcome = "raised_entry"
        /\ (exit_via = "with" /\ body_raised) => task_outcome = "raised_body"

C5_Witness ==
    /\ task_outcome = "raised_entry"
    /\ opened = {"db", "client", "session"}
    /\ Len(teardown_log) = 3

====
